---- MODULE Spec2Model ----
(***************************************************************************)
(* A model of agent_backend (python): the path boundary validator, the     *)
(* scoped backend wrappers, the local and memory backends' path-taking     *)
(* operations, the backend pool manager, the connection status manager,    *)
(* a backend's destroy(), the command safety classifier, the local         *)
(* backend's exec and the scoped filesystem backend's _ensure_root.        *)
(*                                                                         *)
(* Strings are sequences of one-character strings, so that startswith,     *)
(* lstrip, join and normpath are computed character by character as the    *)
(* python code computes them.                                              *)
(***************************************************************************)
EXTENDS Integers, Sequences, FiniteSets, TLC

VARIABLES
    \* ---- path_validation.validate_within_boundary, applied to one input
    relative_path,   \* the path argument
    boundary,        \* the boundary argument
    result,          \* NoResult, or the outcome of the call
    \* ---- one root backend with a scope, a nested scope and one operation
    kind,            \* "fs" (LocalFilesystemBackend) or "mem" (MemoryBackend)
    root_dir,        \* the root backend's root_dir
    scopes,          \* sequence of scope objects, nested last
    oparg,           \* the path arguments of the operation to be called
    opres,           \* the last operation through the innermost scope
    \* ---- one backend's storage and the last operation called on it
    bkind,           \* "local" or "memory"
    store,           \* path -> DirMark or file content (local), key -> value (memory)
    last,            \* NoResult, or the operation called: name, arguments, outcome
    \* ---- BackendPoolManager
    backends,        \* self._backends: the (key, pooled entry) items in dict order
    status,          \* backend id -> "connected" | "destroyed", in order of construction
    in_use,          \* entry id -> _PooledBackend.in_use (an entry has its backend's id)
    idle_for,        \* entry id -> time.time() - _PooledBackend.last_used, counted
                     \* up to IdleTimeout + 1
    handles,         \* the release closures held by callers: entry id, times called
    acquired,        \* key -> what the last two acquire_backend calls with it returned
    destroyCalls,    \* backend id -> number of destroy() calls made on it
    destroy_all_task,\* the position of a destroy_all call
    cleanup_task,    \* the position of the periodic cleanup task
    with_task,       \* the position of a with_backend call
    \* ---- one backend's ConnectionStatusManager, resources and destroy() calls
    mgr_status,      \* ConnectionStatusManager._status
    listeners,       \* ConnectionStatusManager._listeners, a set of callbacks
    registered,      \* the callbacks of _listeners in the order they were added
    received,        \* callback -> number of events it has been called with
    last_set,        \* NoResult, or the last set_status call: argument, outcome
    set_calls,       \* number of set_status calls made
    closeables,      \* self._closeables, a set of tracked resources
    closes,          \* resource -> number of close() calls made on it
    active_scopes,   \* self._active_scopes, a set of scoped backends
    destroy_calls,   \* the destroy() calls made on the backend, in order
    scope_objs,      \* the scoped backends created from the backend, in order
    \* ---- one LocalFilesystemBackend's exec and the command safety classifier
    prevent_dangerous,       \* LocalFilesystemBackend._prevent_dangerous
    on_dangerous_operation,  \* "none", or the callback of _on_dangerous_operation
    command_arg,     \* the command argument
    exec_root,       \* LocalFilesystemBackend._root_dir
    exec_cwd,        \* options.cwd; empty when options or options.cwd is None
    actual_isolation,\* LocalFilesystemBackend._actual_isolation: "bwrap" or "none"
    max_output_length,\* LocalFilesystemBackend._max_output_length, 0 for None
    stdout,          \* what the spawned process wrote to its standard output
    exec_output,     \* what _run_process returns for it
    exec_call,       \* NoResult, or the call made: name, command, outcome
    \* ---- one ScopedFilesystemBackend's _ensure_root and the tasks calling it
    root_ensured,    \* ScopedFilesystemBackend._root_ensured
    lock_locked,     \* _root_ensure_lock is held
    lock_waiters,    \* the tasks waiting for _root_ensure_lock, first come first
    ensure_pc,       \* task -> "idle", "waiting", "exists" or "mkdir"
    ensure_op,       \* task -> the operation it is in, or "none"
    ensure_result,   \* task -> how its last operation went: "none", "raised"
                     \* (by _ensure_root) or "reached parent"
    ensure_calls,    \* task -> number of operations it has called
    parent_calls,    \* the operations that reached the parent, each with the
                     \* flag and the presence of the scope root at that time
    scope_root_exists, \* the scope's root directory exists in the parent
    issued,          \* number of parent exists and mkdir calls issued
    succeeded        \* an attempt has set the flag

pathVars  == <<relative_path, boundary, result>>
scopeVars == <<kind, root_dir, scopes, oparg, opres>>
storeVars == <<bkind, store, last>>
poolVars  == <<backends, status, in_use, idle_for, handles, acquired,
               destroyCalls, destroy_all_task, cleanup_task, with_task>>
lifeVars  == <<mgr_status, listeners, registered, received, last_set, set_calls,
               closeables, closes, active_scopes, destroy_calls, scope_objs>>
cmdVars   == <<prevent_dangerous, on_dangerous_operation, command_arg,
               exec_root, exec_cwd, actual_isolation, exec_call,
               max_output_length, stdout, exec_output>>
ensureVars == <<root_ensured, lock_locked, lock_waiters, ensure_pc, ensure_op,
                ensure_result, ensure_calls, parent_calls, scope_root_exists,
                issued, succeeded>>
extVars   == <<cmdVars, ensureVars>>
vars      == <<pathVars, scopeVars, storeVars, poolVars, lifeVars, extVars>>

-----------------------------------------------------------------------------
(* Bounds of the model.                                                    *)

MaxPathSegs == 3      \* an input path has at most this many '/'-separated segments
MaxBoundarySegs == 2  \* a boundary argument has at most this many segments
MaxEntries == 3       \* a backend's storage holds at most this many entries
MaxBackends == 2      \* the backend factory is called at most this many times
MaxHandles == 2       \* callers hold at most this many release handles at a time
MaxReleaseCalls == 2  \* a caller calls one release handle at most this many times
MaxOverRelease == 1   \* release closures take in_use at most this far below zero

-----------------------------------------------------------------------------
(* Strings.                                                                *)

SEP == "/"

\* The segments input strings are built from: empty (giving leading, doubled
\* and trailing separators), ".", "..", and two names of which one is a
\* proper prefix of the other.
Segments == { <<>>, <<".">>, <<".", ".">>, <<"w">>, <<"w", "e">> }

StartsWith(s, t) == Len(t) <= Len(s) /\ SubSeq(s, 1, Len(t)) = t

EndsWith(s, t) == Len(t) <= Len(s) /\ SubSeq(s, Len(s) - Len(t) + 1, Len(s)) = t

\* str.lstrip("/")
RECURSIVE LstripSep(_)
LstripSep(s) == IF s # <<>> /\ Head(s) = SEP THEN LstripSep(Tail(s)) ELSE s

\* str.rstrip("/")
RECURSIVE RstripSep(_)
RstripSep(s) ==
    IF s # <<>> /\ s[Len(s)] = SEP THEN RstripSep(SubSeq(s, 1, Len(s) - 1)) ELSE s

\* str.split("/"): the sequence of segments, never empty
RECURSIVE SplitFrom(_, _, _)
SplitFrom(s, i, cur) ==
    IF i > Len(s) THEN <<cur>>
    ELSE IF s[i] = SEP THEN <<cur>> \o SplitFrom(s, i + 1, <<>>)
    ELSE SplitFrom(s, i + 1, Append(cur, s[i]))

Split(s) == SplitFrom(s, 1, <<>>)

\* "/".join(comps)
RECURSIVE JoinSegs(_)
JoinSegs(comps) ==
    IF comps = <<>> THEN <<>>
    ELSE IF Len(comps) = 1 THEN comps[1]
    ELSE comps[1] \o <<SEP>> \o JoinSegs(Tail(comps))

\* posixpath.isabs
isabs(s) == StartsWith(s, <<SEP>>)

\* posixpath.join(a, b)
join(a, b) ==
    IF isabs(b) THEN b
    ELSE IF a = <<>> \/ EndsWith(a, <<SEP>>) THEN a \o b
    ELSE a \o <<SEP>> \o b

\* posixpath.normpath: the loop over the components
RECURSIVE NormComps(_, _, _)
NormComps(comps, initial_slashes, new_comps) ==
    IF comps = <<>> THEN new_comps
    ELSE LET comp == Head(comps)
             rest == Tail(comps)
         IN  IF comp = <<>> \/ comp = <<".">>
             THEN NormComps(rest, initial_slashes, new_comps)
             ELSE IF \/ comp # <<".", ".">>
                     \/ (initial_slashes = 0 /\ new_comps = <<>>)
                     \/ (new_comps # <<>> /\ new_comps[Len(new_comps)] = <<".", ".">>)
             THEN NormComps(rest, initial_slashes, Append(new_comps, comp))
             ELSE IF new_comps # <<>>
             THEN NormComps(rest, initial_slashes,
                            SubSeq(new_comps, 1, Len(new_comps) - 1))
             ELSE NormComps(rest, initial_slashes, new_comps)

\* posixpath.normpath
normpath(path) ==
    IF path = <<>> THEN <<".">>
    ELSE LET initial_slashes ==
                 IF ~StartsWith(path, <<SEP>>) THEN 0
                 ELSE IF StartsWith(path, <<SEP, SEP>>)
                         /\ ~StartsWith(path, <<SEP, SEP, SEP>>) THEN 2
                 ELSE 1
             body == JoinSegs(NormComps(Split(path), initial_slashes, <<>>))
             out  == IF initial_slashes = 2 THEN <<SEP, SEP>> \o body
                     ELSE IF initial_slashes = 1 THEN <<SEP>> \o body
                     ELSE body
         IN  IF out = <<>> THEN <<".">> ELSE out

\* os.path.abspath of a path that is absolute already
abspath(p) == normpath(join(<<SEP>>, p))

\* All strings of 1..n segments joined by "/"
RECURSIVE SegLists(_)
SegLists(n) ==
    IF n = 0 THEN {<<>>}
    ELSE LET shorter == SegLists(n - 1)
         IN  shorter \cup { Append(l, s) : l \in { x \in shorter : Len(x) = n - 1 },
                                            s \in Segments }

StringsUpTo(n) == { JoinSegs(l) : l \in SegLists(n) }

Paths == StringsUpTo(MaxPathSegs)
Boundaries == StringsUpTo(MaxBoundarySegs)

-----------------------------------------------------------------------------
(* path_validation.py                                                      *)

NoResult == [kind |-> "none"]
Returned(p) == [kind |-> "ok", path |-> p]
PathEscapeError(p) == [kind |-> "PathEscapeError", path |-> p]

_resolve(p) == normpath(join(<<SEP>>, p))

\* the test the code applies three times: x == b or x.startswith(b + sep)
Within(x, b) == StartsWith(x, b \o <<SEP>>) \/ x = b

\* validate_within_boundary without its branch for an absolute path that is
\* already inside the boundary: such a path is re-rooted under the boundary
ValidateBody_Rerooted(p, boundary_resolved, path_resolved, combined, resolved) ==
    IF ~Within(resolved, boundary_resolved)
    THEN PathEscapeError(p)
    ELSE Returned(normpath(combined))

\* the body of validate_within_boundary, its local variables as parameters
ValidateBody(p, boundary_resolved, path_resolved, combined, resolved) ==
    IF isabs(p) /\ Within(path_resolved, boundary_resolved)
    THEN Returned(path_resolved)
    ELSE IF ~Within(resolved, boundary_resolved)
    THEN PathEscapeError(p)
    ELSE Returned(normpath(combined))

\* an absolute path joined to the boundary with its leading slashes kept
StripAbsolute_Kept(p) == p

\* normalized_path: the path with the leading slashes of an absolute path stripped
StripAbsolute(p) == IF isabs(p) THEN LstripSep(p) ELSE p

validate_within_boundary(p, b) ==
    ValidateBody(p, _resolve(b), _resolve(p),
                 join(b, StripAbsolute(p)), _resolve(join(b, StripAbsolute(p))))

validate_absolute_within_root(absolute_path, root) ==
    IF ~Within(_resolve(absolute_path), _resolve(root))
    THEN PathEscapeError(absolute_path)
    ELSE [kind |-> "ok"]

-----------------------------------------------------------------------------
(* backends/local.py, backends/scoped.py: path translation                 *)

\* LocalFilesystemBackend._resolve_path
AbspathOf(combined) ==
    IF combined.kind = "ok" THEN Returned(abspath(combined.path)) ELSE combined

_resolve_path(root, p) == AbspathOf(validate_within_boundary(p, root))

\* ScopedFilesystemBackend.__init__: the scope object, or the PathEscapeError
\* its validation of scope_path against the parent's root raises
FilesystemScope(root, scope_path, checked) ==
    IF checked.kind = "ok"
    THEN [kind |-> "ok",
          scope |-> [scope_path |-> scope_path, root_dir |-> join(root, scope_path)]]
    ELSE checked

ScopedFilesystemBackend(root, scope_path) ==
    FilesystemScope(root, scope_path, validate_within_boundary(scope_path, root))

\* ScopedMemoryBackend.__init__ (it validates nothing)
WithTrailingSep(scope_path) ==
    IF EndsWith(scope_path, <<SEP>>) THEN scope_path ELSE scope_path \o <<SEP>>

ScopedMemoryBackend(root, scope_path) ==
    [kind |-> "ok",
     scope |-> [scope_path |-> WithTrailingSep(scope_path),
                root_dir |-> join(root, WithTrailingSep(scope_path))]]

\* normalized[len(root_normalized) + 1:]
RelativePart(normalized, root_normalized) ==
    SubSeq(normalized, Len(root_normalized) + 2, Len(normalized))

\* ScopedFilesystemBackend._to_parent_path
\* the body of _to_parent_path, its local variables as parameters
ToParentPathBody(S, p, normalized, root_normalized) ==
    IF isabs(p) /\ StartsWith(normalized, root_normalized \o <<SEP>>)
    THEN Returned(join(S.scope_path, RelativePart(normalized, root_normalized)))
    ELSE IF isabs(p) /\ normalized = root_normalized
    THEN Returned(S.scope_path)
    ELSE validate_within_boundary(p, S.scope_path)

_to_parent_path(S, p) == ToParentPathBody(S, p, normpath(p), normpath(S.root_dir))

\* ScopedMemoryBackend._scope_key
\* the body of _scope_key, its local variables as parameters
ScopeKeyBody(key, scope_for_validation, normalized, root_normalized) ==
    IF isabs(key) /\ StartsWith(normalized, root_normalized \o <<SEP>>)
    THEN Returned(join(scope_for_validation, RelativePart(normalized, root_normalized)))
    ELSE IF isabs(key) /\ (\/ normalized = root_normalized
                           \/ normalized = root_normalized \o <<SEP>>)
    THEN Returned(scope_for_validation)
    ELSE validate_within_boundary(key, scope_for_validation)

_scope_key(S, key) ==
    ScopeKeyBody(key, RstripSep(S.scope_path),
                 normpath(join(<<SEP>>, key)), normpath(join(<<SEP>>, S.root_dir)))

-----------------------------------------------------------------------------
(* The parts of the state a specification does not use stay at these       *)
(* values.                                                                 *)

PathIdle  == relative_path = <<>> /\ boundary = <<>> /\ result = NoResult
ScopeIdle == /\ kind = "fs" /\ root_dir = <<>> /\ scopes = <<>>
             /\ oparg = <<>> /\ opres = NoResult
StoreIdle == bkind = "local" /\ store = <<>> /\ last = NoResult
PoolIdle  == /\ backends = <<>> /\ status = <<>> /\ in_use = <<>>
             /\ idle_for = <<>>
             /\ handles = <<>> /\ acquired = <<>> /\ destroyCalls = <<>>
             /\ destroy_all_task = NoResult /\ cleanup_task = NoResult
             /\ with_task = NoResult
LifeIdle  == /\ mgr_status = "connected" /\ listeners = {} /\ registered = <<>>
             /\ received = <<>> /\ last_set = NoResult /\ set_calls = 0
             /\ closeables = {} /\ closes = <<>> /\ active_scopes = {}
             /\ destroy_calls = <<>> /\ scope_objs = <<>>
CmdIdle   == /\ prevent_dangerous = TRUE /\ on_dangerous_operation = "none"
             /\ command_arg = <<>> /\ exec_call = NoResult
             /\ exec_root = <<>> /\ exec_cwd = <<>> /\ actual_isolation = "none"
             /\ max_output_length = 0 /\ stdout = <<>> /\ exec_output = [kind |-> "none"]
EnsureIdle == /\ root_ensured = FALSE /\ lock_locked = FALSE /\ lock_waiters = <<>>
              /\ ensure_pc = <<>> /\ ensure_op = <<>> /\ ensure_result = <<>>
              /\ ensure_calls = <<>> /\ parent_calls = {}
              /\ scope_root_exists = FALSE /\ issued = 0 /\ succeeded = FALSE
ExtIdle   == CmdIdle /\ EnsureIdle

-----------------------------------------------------------------------------
(* SpecPath: validate_within_boundary applied to every input of the        *)
(* bounded sets.                                                           *)

InitPath ==
    /\ relative_path \in Paths
    /\ boundary \in Boundaries
    /\ result = NoResult
    /\ ScopeIdle /\ StoreIdle /\ PoolIdle /\ LifeIdle /\ ExtIdle

Validate ==
    /\ result = NoResult
    /\ result' = validate_within_boundary(relative_path, boundary)
    /\ UNCHANGED <<relative_path, boundary, scopeVars, storeVars, poolVars, lifeVars, extVars>>

NextPath == Validate

SpecPath == InitPath /\ [][NextPath]_vars

-----------------------------------------------------------------------------
(* Claims about validate_within_boundary (SpecPath).                       *)

\* x, a normalized path, names the location b, a normalized path, or one
\* beneath it: the root contains every absolute path, "." every relative path
\* that does not climb out of it.
LocUnder(x, b) ==
    IF b = <<SEP>> THEN isabs(x)
    ELSE IF b = <<".">> THEN ~isabs(x) /\ ~StartsWith(x, <<".", ".">>)
    ELSE x = b \/ StartsWith(x, b \o <<SEP>>)

SameOutcome(r1, r2) ==
    /\ r1.kind = r2.kind
    /\ r1.kind = "ok" => r1.path = r2.path

\* C1: every call either raises PathEscapeError or returns a path that equals
\* the boundary (as given, normalized, or in the absolute normal form the
\* code compares with) or starts with the boundary + separator; under the
\* boundary "." (or "") a relative path that does not climb out counts too.
C1_NoThirdOutcome ==
    result.kind = "ok" =>
        \/ Within(result.path, _resolve(boundary))
        \/ Within(result.path, normpath(boundary))
        \/ Within(result.path, boundary)
        \/ LocUnder(result.path, normpath(boundary))

\* C5: a relative path whose join with the boundary normalizes to a location
\* outside the boundary raises PathEscapeError carrying the input path.
C5_TraversalRaises ==
    (/\ result # NoResult
     /\ ~isabs(relative_path)
     /\ ~LocUnder(normpath(join(boundary, relative_path)), normpath(boundary)))
        => result = PathEscapeError(relative_path)

\* C6: an absolute path whose location is not inside the boundary has the
\* outcome of the same path with its leading separators stripped; in
\* particular ("/we", "/w") returns "/w/we".
C6_AbsoluteAsRelative ==
    (/\ result # NoResult
     /\ isabs(relative_path)
     /\ ~Within(normpath(relative_path), _resolve(boundary)))
        => /\ SameOutcome(result,
                          validate_within_boundary(LstripSep(relative_path), boundary))
           /\ (relative_path = <<SEP, "w", "e">> /\ boundary = <<SEP, "w">>)
                  => result = Returned(<<SEP, "w", SEP, "w", "e">>)

C6_Witness ==
    /\ relative_path = <<SEP, "w", "e">>
    /\ boundary = <<SEP, "w">>
    /\ result = Returned(<<SEP, "w", SEP, "w", "e">>)

\* C7 as stated: an absolute path that equals the boundary or starts with the
\* boundary + separator is returned unchanged.
C7_ReturnsInputUnchanged ==
    (/\ result # NoResult
     /\ isabs(relative_path)
     /\ Within(relative_path, boundary))
        => result = Returned(relative_path)

\* C7 amended: an absolute path whose normal form equals the boundary's
\* absolute normal form or starts with it + separator is returned in its
\* normal form (never re-rooted under the boundary), which is the input
\* itself when the input is already normalized.
C7_ReturnsNormalizedInput ==
    (/\ result # NoResult
     /\ isabs(relative_path)
     /\ Within(normpath(relative_path), _resolve(boundary)))
        => /\ result = Returned(normpath(relative_path))
           /\ relative_path = normpath(relative_path)
                  => result = Returned(relative_path)

C7_Witness ==
    /\ relative_path = <<SEP, "w", SEP, "w", "e">>
    /\ boundary = <<SEP, "w">>
    /\ result = Returned(relative_path)

-----------------------------------------------------------------------------
(* SpecScope: a root backend, a scope of it, optionally a scope nested in  *)
(* that scope, and one path operation through the innermost scope.  The   *)
(* operation's path arguments are drawn in the initial state.              *)

FsRoots == { <<SEP, "w">>, <<SEP, "w", SEP, "w", "e">> }
MemRoots == { <<SEP>>, <<SEP, "w">> }

ScopePaths ==
    { <<"w">>, <<"w", "e">>, <<"w", SEP, "w", "e">>, <<SEP, "w", "e">>,
      <<".", ".", SEP, "w">> }

NestedPaths ==
    { <<"w", "e">>, <<"w", SEP, "w", "e">>, <<".", SEP, "w", "e">>,
      <<".", ".", SEP, "w", "e">>, <<SEP, "w", "e">>, <<".", ".">> }

RenameTargets == { <<"w", "e">>, <<".", ".", SEP, "w", "e">>, <<SEP, "w", "e">> }

InitScope ==
    /\ kind \in {"fs", "mem"}
    /\ root_dir \in (IF kind = "fs" THEN FsRoots ELSE MemRoots)
    /\ scopes = <<>>
    /\ oparg \in { <<p>> : p \in Paths } \cup (Paths \X RenameTargets)
    /\ opres = NoResult
    /\ PathIdle /\ StoreIdle /\ PoolIdle /\ LifeIdle /\ ExtIdle

NewScope(k, root, scope_path) ==
    IF k = "fs" THEN ScopedFilesystemBackend(root, scope_path)
    ELSE ScopedMemoryBackend(root, scope_path)

\* LocalFilesystemBackend.scope / MemoryBackend.scope
\* the scope is added to the chain, or its constructor's error is the outcome
Constructed(given, made) ==
    IF made.kind = "ok"
    THEN /\ scopes' = Append(scopes, [given |-> given] @@ made.scope)
         /\ opres' = opres
    ELSE /\ scopes' = scopes
         /\ opres' = [kind |-> made.kind, op |-> "scope"]

CreateScope(scope_path) ==
    /\ scopes = <<>> /\ opres = NoResult
    /\ Constructed(scope_path, NewScope(kind, root_dir, scope_path))
    /\ UNCHANGED <<kind, root_dir, oparg, pathVars, storeVars, poolVars, lifeVars, extVars>>

\* ScopedFilesystemBackend.scope / ScopedMemoryBackend.scope
NestScope(nested_path) ==
    /\ Len(scopes) = 1 /\ opres = NoResult
    /\ Constructed(nested_path,
                   NewScope(kind, root_dir, join(scopes[1].scope_path, nested_path)))
    /\ UNCHANGED <<kind, root_dir, oparg, pathVars, storeVars, poolVars, lifeVars, extVars>>

\* the path the scope hands to its parent
ToParent(S, p) == IF kind = "fs" THEN _to_parent_path(S, p) ELSE _scope_key(S, p)

\* where the parent then acts: the local backend resolves the path against
\* its own root, the memory backend uses the key as it is
ParentActsOn(q) == IF kind = "fs" THEN _resolve_path(root_dir, q) ELSE Returned(q)

Landed(q, at) ==
    IF at.kind # "ok" THEN at
    ELSE [kind |-> "ok", path |-> q.path, location |-> at.path]

ReachVia(q) == IF q.kind # "ok" THEN q ELSE Landed(q, ParentActsOn(q.path))

\* the call self._parent.<op>(self._to_parent_path(path)): the error raised, or
\* the path handed to the parent and the location the parent acts on
Reach(S, p) == ReachVia(ToParent(S, p))

OpOutcome(r) ==
    IF r.kind = "ok" THEN [kind |-> "ok", op |-> "path", reached |-> <<r>>]
    ELSE [kind |-> r.kind, op |-> "path"]

RenameOutcome(ro, rn) ==
    IF ro.kind # "ok" \/ rn.kind # "ok"
    THEN [kind |-> "PathEscapeError", op |-> "rename"]
    ELSE [kind |-> "ok", op |-> "rename", reached |-> <<ro, rn>>]

\* read, write, rm, readdir, mkdir (fs), touch, exists, stat through the
\* innermost scope: self._parent.<op>(self._to_parent_path(path))
ScopedOp ==
    /\ scopes # <<>> /\ opres = NoResult /\ Len(oparg) = 1
    /\ opres' = OpOutcome(Reach(scopes[Len(scopes)], oparg[1]))
    /\ UNCHANGED <<kind, root_dir, scopes, oparg, pathVars, storeVars, poolVars, lifeVars, extVars>>

\* rename through the innermost scope: both paths are translated before the
\* parent is called
ScopedRename ==
    /\ scopes # <<>> /\ opres = NoResult /\ Len(oparg) = 2
    /\ opres' = RenameOutcome(Reach(scopes[Len(scopes)], oparg[1]),
                              Reach(scopes[Len(scopes)], oparg[2]))
    /\ UNCHANGED <<kind, root_dir, scopes, oparg, pathVars, storeVars, poolVars, lifeVars, extVars>>

NextScope ==
    \/ \E sp \in ScopePaths : CreateScope(sp)
    \/ \E np \in NestedPaths : NestScope(np)
    \/ ScopedOp
    \/ ScopedRename

SpecScope == InitScope /\ [][NextScope]_vars

-----------------------------------------------------------------------------
(* Claims about the scoped wrappers (SpecScope).                           *)

\* A scope's own boundary: for a filesystem scope the directory its
\* scope_path names under the parent's root (where the parent creates the
\* scope root), for a memory scope its key prefix.
BoundaryOf(S) ==
    IF kind = "fs" THEN _resolve_path(root_dir, S.scope_path).path
    ELSE normpath(RstripSep(S.scope_path))

\* what the parent was made to act on lies within the boundary bnd
ReachedWithin(r, bnd) ==
    IF kind = "fs" THEN LocUnder(r.location, bnd)
    ELSE LocUnder(normpath(r.path), bnd)

OpReached == opres.kind = "ok" /\ opres.op \in {"path", "rename"}

\* C2: an operation through a scope S raises PathEscapeError or reaches the
\* parent with a path inside S's own boundary.
C2_ScopeConfinesOperations ==
    (Len(scopes) = 1 /\ OpReached) =>
        \A i \in DOMAIN opres.reached :
            ReachedWithin(opres.reached[i], BoundaryOf(scopes[1]))

\* C3: a nested scope S2 = S.scope(p2) has its boundary within S's boundary,
\* and no operation through S2 reaches a path or key outside S.
C3_NestedScopeWithinScope ==
    Len(scopes) = 2 =>
        /\ LocUnder(BoundaryOf(scopes[2]), BoundaryOf(scopes[1]))
        /\ OpReached =>
               \A i \in DOMAIN opres.reached :
                   ReachedWithin(opres.reached[i], BoundaryOf(scopes[1]))

\* p1 + "/" + p2, normalized
Composed(p1, p2) == normpath(p1 \o <<SEP>> \o p2)

\* C8: for S at p1 and S2 = S.scope(p2), S2.scope_path is normalize(p1/p2)
\* (compared in normal form) and operations through S2 land under p1/p2.
C8_NestedScopePathComposes ==
    Len(scopes) = 2 =>
        /\ normpath(scopes[2].scope_path) = Composed(scopes[1].given, scopes[2].given)
        /\ OpReached =>
               \A i \in DOMAIN opres.reached :
                   ReachedWithin(opres.reached[i],
                                 IF kind = "fs"
                                 THEN normpath(join(root_dir,
                                          Composed(scopes[1].given, scopes[2].given)))
                                 ELSE Composed(scopes[1].given, scopes[2].given))

-----------------------------------------------------------------------------
(* SpecStore: one backend (local or memory), rooted at StoreRoot, and the  *)
(* path-taking operations called on it one after another.  An operation    *)
(* leaves its outcome in last; Return hands it to the caller.              *)

StoreRoot == <<SEP, "w">>

OpPaths ==
    { <<>>, <<".">>, <<"w">>, <<"w", SEP>>, <<"w", "e">>, <<"w", SEP, "w", "e">>,
      <<".", ".", SEP, "w", "e">>, <<SEP, "w", "e">> }

Contents == { "x" }

\* the value of a stored path that is a directory (local backend)
DirMark == "<dir>"

None == "None"

NoOpts == [recursive |-> FALSE, force |-> FALSE]

\* the operation ends: storage is st, the caller gets an exception of the
\* given kind or (kind "ok") the value
Done(op, args, opts, st, outcome, value) ==
    /\ last = NoResult
    /\ Cardinality(DOMAIN st) <= MaxEntries
    /\ store' = st
    /\ last' = [op |-> op, args |-> args, opts |-> opts, kind |-> outcome,
                value |-> value]
    /\ UNCHANGED <<bkind, pathVars, scopeVars, poolVars, lifeVars, extVars>>

\* dict without the keys in gone
Without(st, gone) == [k \in DOMAIN st \ gone |-> st[k]]

\* all of what follows prefix in the keys that start with it
WholeRemainders(keys, prefix) ==
    { SubSeq(k, Len(prefix) + 1, Len(k)) :
          k \in { x \in keys : StartsWith(x, prefix) } } \ { <<>> }

\* the first segments of what follows prefix in the keys that start with it
FirstSegments(keys, prefix) ==
    { Split(SubSeq(k, Len(prefix) + 1, Len(k)))[1] :
          k \in { x \in keys : StartsWith(x, prefix) } } \ { <<>> }

\* the order of characters in str comparison
Ord(c) == CASE c = "." -> 1 [] c = SEP -> 2 [] c = "e" -> 3 [] c = "w" -> 4

RECURSIVE StrLess(_, _)
StrLess(a, b) ==
    IF a = <<>> THEN b # <<>>
    ELSE IF b = <<>> THEN FALSE
    ELSE IF Head(a) = Head(b) THEN StrLess(Tail(a), Tail(b))
    ELSE Ord(Head(a)) < Ord(Head(b))

\* sorted(names)
RECURSIVE sorted(_)
sorted(names) ==
    IF names = {} THEN <<>>
    ELSE LET least == CHOOSE x \in names : \A y \in names \ {x} : StrLess(x, y)
         IN  <<least>> \o sorted(names \ {least})

-----------------------------------------------------------------------------
(* backends/memory.py: the operations use the key as given                 *)

MemoryRead(key) ==
    /\ bkind = "memory"
    /\ IF key \in DOMAIN store
       THEN Done("read", <<key>>, NoOpts, store, "ok", store[key])
       ELSE Done("read", <<key>>, NoOpts, store, "KEY_NOT_FOUND", None)

MemoryWrite(key, content) ==
    /\ bkind = "memory"
    /\ Done("write", <<key>>, NoOpts, (key :> content) @@ store, "ok", None)

\* self._store[new_key] = value, then del self._store[old_key]
MemoryRename(old_key, new_key) ==
    /\ bkind = "memory"
    /\ IF old_key \in DOMAIN store
       THEN Done("rename", <<old_key, new_key>>, NoOpts,
                 Without((new_key :> store[old_key]) @@ store, {old_key}), "ok", None)
       ELSE Done("rename", <<old_key, new_key>>, NoOpts, store, "KEY_NOT_FOUND", None)

\* keys_to_delete of the recursive branch
KeysToDelete(st, key) ==
    { k \in DOMAIN st : k = key \/ StartsWith(k, WithTrailingSep(key)) }

\* A stored key that ends with "/" is its own prefix: it is listed twice, and
\* the second del raises KeyError after the keys listed before it (in the
\* dict's order, which the model leaves open) have been deleted.
MemoryRm(key, recursive, force) ==
    /\ bkind = "memory"
    /\ IF recursive /\ key \in DOMAIN store /\ EndsWith(key, <<SEP>>)
       THEN \E gone \in SUBSET (KeysToDelete(store, key) \ {key}) :
                Done("rm", <<key>>, [recursive |-> recursive, force |-> force],
                     Without(store, {key} \cup gone), "KeyError", None)
       ELSE IF recursive
       THEN Done("rm", <<key>>, [recursive |-> recursive, force |-> force],
                 Without(store, KeysToDelete(store, key)),
                 IF ~force /\ KeysToDelete(store, key) = {}
                 THEN "KEY_NOT_FOUND" ELSE "ok", None)
       ELSE Done("rm", <<key>>, [recursive |-> recursive, force |-> force],
                 Without(store, {key}),
                 IF key \notin DOMAIN store /\ ~force THEN "KEY_NOT_FOUND" ELSE "ok",
                 None)

MemoryReaddir(prefix) ==
    /\ bkind = "memory"
    /\ Done("readdir", <<prefix>>, NoOpts, store, "ok",
            sorted(FirstSegments(DOMAIN store,
                                 IF prefix \in { <<>>, <<".">>, <<SEP>> } THEN <<>>
                                 ELSE WithTrailingSep(prefix))))

MemoryMkdir(path, recursive) ==
    /\ bkind = "memory"
    /\ Done("mkdir", <<path>>, [recursive |-> recursive, force |-> FALSE], store,
            "ok", None)

MemoryTouch(key) ==
    /\ bkind = "memory"
    /\ Done("touch", <<key>>, NoOpts,
            IF key \in DOMAIN store THEN store ELSE (key :> "") @@ store, "ok", None)

MemoryExists(key) ==
    /\ bkind = "memory"
    /\ Done("exists", <<key>>, NoOpts, store, "ok", key \in DOMAIN store)

\* the FileStat returned, without its size and modification time
MemoryStat(key) ==
    /\ bkind = "memory"
    /\ IF key \in DOMAIN store
       THEN Done("stat", <<key>>, NoOpts, store, "ok",
                 [is_file |-> TRUE, is_directory |-> FALSE])
       ELSE Done("stat", <<key>>, NoOpts, store, "KEY_NOT_FOUND", None)

-----------------------------------------------------------------------------
(* backends/local.py: the operations resolve the path first, then act on   *)
(* the file system; store maps an existing path to DirMark or to a file's  *)
(* content, and "/" is a directory that always exists.                     *)

IsDir(st, x) == x = <<SEP>> \/ (x \in DOMAIN st /\ st[x] = DirMark)

IsFile(st, x) == x \in DOMAIN st /\ st[x] # DirMark

\* os.path.dirname
RECURSIVE DirHead(_)
DirHead(s) ==
    IF s = <<>> \/ s[Len(s)] = SEP THEN s ELSE DirHead(SubSeq(s, 1, Len(s) - 1))

dirname(p) == IF RstripSep(DirHead(p)) = <<>> THEN DirHead(p) ELSE RstripSep(DirHead(p))

\* the directories os.makedirs(name) has to create
RECURSIVE MissingDirs(_, _)
MissingDirs(st, name) ==
    IF IsDir(st, name) \/ IsFile(st, name) THEN {}
    ELSE {name} \cup MissingDirs(st, dirname(name))

\* os.makedirs(name, exist_ok): whether it succeeds, and the file system after
makedirs(st, name, exist_ok) ==
    IF MissingDirs(st, name) = {}
    THEN [ok |-> exist_ok /\ IsDir(st, name), st |-> st]
    ELSE IF \E m \in MissingDirs(st, name) : IsFile(st, dirname(m))
    THEN [ok |-> FALSE, st |-> st]
    ELSE [ok |-> TRUE, st |-> [m \in MissingDirs(st, name) |-> DirMark] @@ st]

\* the paths at or beneath x
Subtree(st, x) == { k \in DOMAIN st : k = x \/ StartsWith(k, x \o <<SEP>>) }

\* os.rename(old, new): whether it succeeds, and the file system after
os_rename(st, old, new) ==
    IF ~(IsDir(st, old) \/ IsFile(st, old)) THEN [ok |-> FALSE, st |-> st]
    ELSE IF old = new THEN [ok |-> TRUE, st |-> st]
    ELSE IF IsFile(st, old)
    THEN IF IsDir(st, new) THEN [ok |-> FALSE, st |-> st]
         ELSE [ok |-> TRUE, st |-> Without((new :> st[old]) @@ st, {old})]
    ELSE IF \/ IsFile(st, new)
            \/ StartsWith(new, old \o <<SEP>>)
            \/ Subtree(st, new) \ {new} # {}
    THEN [ok |-> FALSE, st |-> st]
    ELSE [ok |-> TRUE,
          st |-> [k \in { new \o SubSeq(e, Len(old) + 1, Len(e)) : e \in Subtree(st, old) }
                      |-> st[old \o SubSeq(k, Len(new) + 1, Len(k))]]
                 @@ Without(st, Subtree(st, old))]

\* an operation's path argument did not pass self._resolve_path
Escaped(op, args, opts) == Done(op, args, opts, store, "PathEscapeError", None)

LocalRead(relative_path_, full_path) ==
    /\ bkind = "local"
    /\ IF full_path.kind # "ok" THEN Escaped("read", <<relative_path_>>, NoOpts)
       ELSE IF IsFile(store, full_path.path)
       THEN Done("read", <<relative_path_>>, NoOpts, store, "ok", store[full_path.path])
       ELSE Done("read", <<relative_path_>>, NoOpts, store, "READ_FAILED", None)

\* os.makedirs(os.path.dirname(full_path), exist_ok=True), then open(full_path, "w")
WriteFile(made, full, content) ==
    IF made.ok /\ ~IsDir(made.st, full)
    THEN [ok |-> TRUE, st |-> (full :> content) @@ made.st]
    ELSE [ok |-> FALSE, st |-> made.st]

Wrote(op, args, wrote, failure) ==
    Done(op, args, NoOpts, wrote.st, IF wrote.ok THEN "ok" ELSE failure, None)

LocalWrite(relative_path_, content, full_path) ==
    /\ bkind = "local"
    /\ IF full_path.kind # "ok" THEN Escaped("write", <<relative_path_>>, NoOpts)
       ELSE Wrote("write", <<relative_path_>>,
                  WriteFile(makedirs(store, dirname(full_path.path), TRUE),
                            full_path.path, content),
                  "WRITE_FAILED")

\* os.makedirs(os.path.dirname(full_new), exist_ok=True), then os.rename
RenameAfter(made, full_old, full_new) ==
    IF made.ok THEN os_rename(made.st, full_old, full_new) ELSE made

LocalRename(old_path, new_path, full_old, full_new) ==
    /\ bkind = "local"
    /\ IF full_old.kind # "ok" \/ full_new.kind # "ok"
       THEN Escaped("rename", <<old_path, new_path>>, NoOpts)
       ELSE Wrote("rename", <<old_path, new_path>>,
                  RenameAfter(makedirs(store, dirname(full_new.path), TRUE),
                              full_old.path, full_new.path),
                  "WRITE_FAILED")

\* rm raising for a missing path whatever force is
LocalRm_ForceIgnored(relative_path_, recursive, force, full_path) ==
    /\ bkind = "local"
    /\ IF full_path.kind # "ok"
       THEN Escaped("rm", <<relative_path_>>, [recursive |-> recursive, force |-> force])
       ELSE IF IsDir(store, full_path.path) \/ IsFile(store, full_path.path)
       THEN Done("rm", <<relative_path_>>, [recursive |-> recursive, force |-> force],
                 Without(store, Subtree(store, full_path.path)), "ok", None)
       ELSE Done("rm", <<relative_path_>>, [recursive |-> recursive, force |-> force],
                 store, "WRITE_FAILED", None)

LocalRm(relative_path_, recursive, force, full_path) ==
    /\ bkind = "local"
    /\ IF full_path.kind # "ok"
       THEN Escaped("rm", <<relative_path_>>, [recursive |-> recursive, force |-> force])
       ELSE IF IsDir(store, full_path.path)
       THEN IF recursive \/ Subtree(store, full_path.path) = {full_path.path}
            THEN Done("rm", <<relative_path_>>, [recursive |-> recursive, force |-> force],
                      Without(store, Subtree(store, full_path.path)), "ok", None)
            ELSE Done("rm", <<relative_path_>>, [recursive |-> recursive, force |-> force],
                      store, "WRITE_FAILED", None)
       ELSE IF IsFile(store, full_path.path)
       THEN Done("rm", <<relative_path_>>, [recursive |-> recursive, force |-> force],
                 Without(store, {full_path.path}), "ok", None)
       ELSE Done("rm", <<relative_path_>>, [recursive |-> recursive, force |-> force],
                 store, IF force THEN "ok" ELSE "WRITE_FAILED", None)

LocalReaddir(relative_path_, full_path) ==
    /\ bkind = "local"
    /\ IF full_path.kind # "ok" THEN Escaped("readdir", <<relative_path_>>, NoOpts)
       ELSE IF IsDir(store, full_path.path)
       THEN Done("readdir", <<relative_path_>>, NoOpts, store, "ok",
                 sorted(FirstSegments(DOMAIN store, WithTrailingSep(full_path.path))))
       ELSE Done("readdir", <<relative_path_>>, NoOpts, store, "LS_FAILED", None)

LocalMkdir(relative_path_, recursive, full_path) ==
    /\ bkind = "local"
    /\ IF full_path.kind # "ok"
       THEN Escaped("mkdir", <<relative_path_>>, [recursive |-> recursive, force |-> FALSE])
       ELSE Done("mkdir", <<relative_path_>>, [recursive |-> recursive, force |-> FALSE],
                 makedirs(store, full_path.path, recursive).st,
                 IF makedirs(store, full_path.path, recursive).ok
                 THEN "ok" ELSE "WRITE_FAILED", None)

\* an OSError of makedirs or open is not caught in touch
LocalTouch(relative_path_, full_path) ==
    /\ bkind = "local"
    /\ IF full_path.kind # "ok" THEN Escaped("touch", <<relative_path_>>, NoOpts)
       ELSE IF IsDir(store, full_path.path) \/ IsFile(store, full_path.path)
       THEN Done("touch", <<relative_path_>>, NoOpts, store, "ok", None)
       ELSE Wrote("touch", <<relative_path_>>,
                  WriteFile(makedirs(store, dirname(full_path.path), TRUE),
                            full_path.path, ""),
                  "OSError")

LocalExists(relative_path_, full_path) ==
    /\ bkind = "local"
    /\ IF full_path.kind # "ok" THEN Escaped("exists", <<relative_path_>>, NoOpts)
       ELSE Done("exists", <<relative_path_>>, NoOpts, store, "ok",
                 IsDir(store, full_path.path) \/ IsFile(store, full_path.path))

\* the FileStat returned, without its size and modification time
LocalStat(relative_path_, full_path) ==
    /\ bkind = "local"
    /\ IF full_path.kind # "ok" THEN Escaped("stat", <<relative_path_>>, NoOpts)
       ELSE IF IsDir(store, full_path.path) \/ IsFile(store, full_path.path)
       THEN Done("stat", <<relative_path_>>, NoOpts, store, "ok",
                 [is_file |-> IsFile(store, full_path.path),
                  is_directory |-> IsDir(store, full_path.path)])
       ELSE Done("stat", <<relative_path_>>, NoOpts, store, "READ_FAILED", None)

InitStore ==
    /\ bkind \in {"local", "memory"}
    /\ store = IF bkind = "local" THEN (StoreRoot :> DirMark) ELSE <<>>
    /\ last = NoResult
    /\ PathIdle /\ ScopeIdle /\ PoolIdle /\ LifeIdle /\ ExtIdle

\* the caller takes the outcome of the operation
Return ==
    /\ last # NoResult
    /\ last' = NoResult
    /\ UNCHANGED <<bkind, store, pathVars, scopeVars, poolVars, lifeVars, extVars>>

NextStore ==
    \/ \E p \in OpPaths : MemoryRead(p)
    \/ \E p \in OpPaths, c \in Contents : MemoryWrite(p, c)
    \/ \E p \in OpPaths, q \in OpPaths : MemoryRename(p, q)
    \/ \E p \in OpPaths, r \in BOOLEAN, f \in BOOLEAN : MemoryRm(p, r, f)
    \/ \E p \in OpPaths : MemoryReaddir(p)
    \/ \E p \in OpPaths, r \in BOOLEAN : MemoryMkdir(p, r)
    \/ \E p \in OpPaths : MemoryTouch(p)
    \/ \E p \in OpPaths : MemoryExists(p)
    \/ \E p \in OpPaths : MemoryStat(p)
    \/ \E p \in OpPaths : LocalRead(p, _resolve_path(StoreRoot, p))
    \/ \E p \in OpPaths, c \in Contents : LocalWrite(p, c, _resolve_path(StoreRoot, p))
    \/ \E p \in OpPaths, q \in OpPaths :
           LocalRename(p, q, _resolve_path(StoreRoot, p), _resolve_path(StoreRoot, q))
    \/ \E p \in OpPaths, r \in BOOLEAN, f \in BOOLEAN :
           LocalRm(p, r, f, _resolve_path(StoreRoot, p))
    \/ \E p \in OpPaths : LocalReaddir(p, _resolve_path(StoreRoot, p))
    \/ \E p \in OpPaths, r \in BOOLEAN : LocalMkdir(p, r, _resolve_path(StoreRoot, p))
    \/ \E p \in OpPaths : LocalTouch(p, _resolve_path(StoreRoot, p))
    \/ \E p \in OpPaths : LocalExists(p, _resolve_path(StoreRoot, p))
    \/ \E p \in OpPaths : LocalStat(p, _resolve_path(StoreRoot, p))
    \/ Return

SpecStore == InitStore /\ [][NextStore]_vars

-----------------------------------------------------------------------------
(* Claims about the backends' path-taking operations (SpecStore).          *)

\* p, taken relative to the backend's root (an absolute p with its leading
\* separators stripped), names a location outside the root
EscapesRoot(p) == ~LocUnder(normpath(join(StoreRoot, LstripSep(p))), StoreRoot)

\* C4: an operation of either backend called with a path that escapes the
\* backend's root raises PathEscapeError and leaves storage unchanged.
C4_ValidatedBeforeStorage ==
    [][(/\ last = NoResult /\ last' # NoResult
        /\ \E i \in DOMAIN last'.args : EscapesRoot(last'.args[i]))
           => (last'.kind = "PathEscapeError" /\ store' = store)]_vars

\* p names nothing in storage st: no file or directory at the path it
\* resolves to (local); no key p and no key under the prefix p (memory)
Missing(st, p) ==
    IF bkind = "local"
    THEN /\ _resolve_path(StoreRoot, p).kind = "ok"
         /\ ~IsDir(st, _resolve_path(StoreRoot, p).path)
         /\ ~IsFile(st, _resolve_path(StoreRoot, p).path)
    ELSE /\ p \notin DOMAIN st
         /\ \A k \in DOMAIN st : ~StartsWith(k, WithTrailingSep(p))

\* C25: rm of a path that names nothing in storage, on either backend and
\* recursive or not, raises if force is false and returns if force is true,
\* each time it is called, and leaves storage unchanged either way.
C25_RmMissingRaisesUnlessForce ==
    [][(/\ last = NoResult /\ last' # NoResult /\ last'.op = "rm"
        /\ Missing(store, last'.args[1]))
           => /\ last'.kind = "ok" <=> last'.opts.force
              /\ last'.kind \in {"ok", "KEY_NOT_FOUND", "WRITE_FAILED"}
              /\ store' = store]_vars

\* rm(force) has returned for a path below a file, which cannot have named
\* anything when rm was called
C25_Witness ==
    /\ bkind = "local" /\ last # NoResult /\ last.op = "rm"
    /\ last.args = << <<"w", SEP, "w", "e">> >>
    /\ last.opts.force /\ last.opts.recursive /\ last.kind = "ok"
    /\ IsFile(store, <<SEP, "w", SEP, "w">>)
    /\ Missing(store, <<"w", SEP, "w", "e">>)

\* C26: memory rm(key, recursive=True) returns or raises KEY_NOT_FOUND, and
\* deletes the key itself and every key that starts with key + "/" (with
\* key, when key ends with "/" already), and no other key; the keys that
\* stay keep their values.
C26_RecursiveRmDeletesSubtree ==
    [][(/\ bkind = "memory" /\ last = NoResult /\ last' # NoResult
        /\ last'.op = "rm" /\ last'.opts.recursive)
           => /\ last'.kind \in {"ok", "KEY_NOT_FOUND"}
              /\ DOMAIN store' =
                     { k \in DOMAIN store :
                           /\ k # last'.args[1]
                           /\ ~StartsWith(k, WithTrailingSep(last'.args[1])) }
              /\ \A k \in DOMAIN store' : store'[k] = store[k]]_vars

\* the prefix readdir compares the keys with
NormalizedPrefix(prefix) ==
    IF prefix \in { <<>>, <<".">>, <<SEP>> } THEN <<>> ELSE WithTrailingSep(prefix)

\* the non-empty strings without "/" that, right after the prefix, are the
\* rest of a key or are followed by "/" in it
ChildSegments(keys, prefix) ==
    UNION { { SubSeq(k, Len(prefix) + 1, j) :
                  j \in { n \in (Len(prefix) + 1)..Len(k) :
                             /\ \A i \in (Len(prefix) + 1)..n : k[i] # SEP
                             /\ n = Len(k) \/ k[n + 1] = SEP } } :
            k \in { x \in keys : StartsWith(x, prefix) } }

\* C27: memory readdir(prefix) returns, each once, exactly the first path
\* segments that follow the normalized prefix in the keys that start with
\* it: never a longer part of a key, and never a part of a key that shares
\* the prefix's text without the separator.
C27_ReaddirImmediateChildren ==
    (bkind = "memory" /\ last # NoResult /\ last.op = "readdir")
        => /\ last.kind = "ok"
           /\ { last.value[i] : i \in DOMAIN last.value } =
                  ChildSegments(DOMAIN store, NormalizedPrefix(last.args[1]))
           /\ \A i, j \in DOMAIN last.value : i # j => last.value[i] # last.value[j]

C27_Witness ==
    /\ bkind = "memory" /\ last # NoResult /\ last.op = "readdir"
    /\ last.args = << <<"w">> >>
    /\ {<<"w", SEP>>, <<"w", SEP, "w", "e">>, <<"w", "e">>} \subseteq DOMAIN store
    /\ last.value = << <<"w", "e">> >>

\* the step is a memory rename(old, new) call
IsMemoryRename == bkind = "memory" /\ last = NoResult /\ last'.op = "rename"

\* C36: a memory rename(old, new) that returns leaves at new the value that
\* was stored at old, also when old = new, and nothing at old when the two
\* differ; one that raises does so with KEY_NOT_FOUND because old is not
\* stored, and leaves the store unchanged.
C36_MemoryRenameMovesValue ==
    [][IsMemoryRename =>
          LET old == last'.args[1]
              new == last'.args[2]
          IN  IF last'.kind = "ok"
              THEN /\ old \in DOMAIN store
                   /\ new \in DOMAIN store' /\ store'[new] = store[old]
                   /\ old # new => old \notin DOMAIN store'
              ELSE /\ last'.kind = "KEY_NOT_FOUND"
                   /\ old \notin DOMAIN store
                   /\ store' = store]_vars

-----------------------------------------------------------------------------
(* SpecPool: pool.py, BackendPoolManager.  Backends are numbered in the    *)
(* order the factory constructs them, and a _PooledBackend entry has the   *)
(* number of its backend.  acquire_backend and the release closures are    *)
(* atomic; destroy_all and the cleanup pass suspend at each                *)
(* await pooled.backend.destroy().                                         *)

PoolKeys == { "a", "b" }

\* idle_timeout_ms, in ticks of time.time()
IdleTimeout == 1

\* self._backends.get(key): the entry, 0 for None
Pooled(d, key) ==
    IF \E i \in DOMAIN d : d[i].key = key
    THEN d[CHOOSE i \in DOMAIN d : d[i].key = key].pooled
    ELSE 0

\* self._backends[key] = pooled
DictSet(d, key, pooled) ==
    IF Pooled(d, key) = 0 THEN Append(d, [key |-> key, pooled |-> pooled])
    ELSE [i \in DOMAIN d |-> IF d[i].key = key THEN [key |-> key, pooled |-> pooled]
                             ELSE d[i]]

\* del self._backends[key], self._backends.pop(key)
DictDel(d, key) == SelectSeq(d, LAMBDA item : item.key # key)

\* what a caller has seen of acquire_backend(key): the backend returned by
\* the last call and by the one before it, whether a destroy came between
\* the two (intervened) or after the last (since), the entry the last call
\* found under the key (was) and whether its backend was not CONNECTED
\* (stale), whether the last call constructed its backend (fresh), the
\* entry under the key when it returned (pooled), and whether any call
\* returned a backend that was pooled already (reused)
NeverAcquired ==
    [backend |-> 0, prev |-> 0, intervened |-> FALSE, since |-> FALSE,
     was |-> 0, stale |-> FALSE, fresh |-> FALSE, pooled |-> 0, reused |-> FALSE]

\* a destroy happened: destroy() was called on a backend or took effect, or
\* destroy_all or the cleanup pass took a step
DestroySeen(acq, keys) ==
    [k \in DOMAIN acq |-> IF k \in keys THEN [acq[k] EXCEPT !.since = TRUE] ELSE acq[k]]

\* what has been seen of the last destroy_all call: the items it listed,
\* the backends it has called destroy() on, whether one of these calls
\* raised, and how many backends had been constructed when it began
NothingSeen == [snapshot |-> <<>>, called |-> {}, failed |-> FALSE, built |-> 0]

InitPool ==
    /\ backends = <<>>
    /\ status = <<>>
    /\ in_use = <<>>
    /\ idle_for = <<>>
    /\ handles = <<>>
    /\ acquired = [k \in PoolKeys |-> NeverAcquired]
    /\ destroyCalls = <<>>
    /\ destroy_all_task = [pc |-> "idle", todo |-> <<>>, seen |-> NothingSeen]
    /\ cleanup_task \in { [pc |-> "off", todo |-> <<>>, cur |-> 0],
                          [pc |-> "sleeping", todo |-> <<>>, cur |-> 0] }
    /\ with_task = [pc |-> "idle", pooled |-> 0, before |-> 0, fn |-> "none",
                    outcome |-> "none"]
    /\ PathIdle /\ ScopeIdle /\ StoreIdle /\ LifeIdle /\ ExtIdle

\* the release closures callers hold, one more: which caller holds which is
\* not told apart, so they are kept in the order of entry and calls made
Held(held, handle) ==
    SelectSeq(held, LAMBDA h : h.pooled < handle.pooled
                                \/ (h.pooled = handle.pooled /\ h.calls <= handle.calls))
    \o <<handle>>
    \o SelectSeq(held, LAMBDA h : h.pooled > handle.pooled
                                   \/ (h.pooled = handle.pooled /\ h.calls > handle.calls))

\* acquire_backend(None) that counts its backend as a pool entry in use
AcquireUnpooled_Counted ==
    /\ Len(status) < MaxBackends /\ Len(handles) < MaxHandles
    /\ status' = Append(status, "connected")
    /\ destroyCalls' = Append(destroyCalls, 0)
    /\ handles' = Held(handles, [pooled |-> 0, calls |-> 0])
    /\ in_use' = (Len(status) + 1 :> 1) @@ in_use
    /\ idle_for' = (Len(status) + 1 :> 0) @@ idle_for
    /\ UNCHANGED <<backends, acquired, destroy_all_task, cleanup_task,
                   with_task, pathVars, scopeVars, storeVars, lifeVars, extVars>>

\* acquire_backend(None): a backend that is not pooled, and lambda: None
AcquireUnpooled ==
    /\ Len(status) < MaxBackends /\ Len(handles) < MaxHandles
    /\ status' = Append(status, "connected")
    /\ destroyCalls' = Append(destroyCalls, 0)
    /\ handles' = Held(handles, [pooled |-> 0, calls |-> 0])
    /\ UNCHANGED <<backends, in_use, idle_for, acquired, destroy_all_task, cleanup_task,
                   with_task, pathVars, scopeVars, storeVars, lifeVars, extVars>>

\* no pooled backend is ever reused
Reusable_Never(d, st, key) == FALSE

\* not (not pooled or pooled.backend.status != ConnectionStatus.CONNECTED)
Reusable(d, st, key) == Pooled(d, key) # 0 /\ st[Pooled(d, key)] = "connected"

\* acquire_backend(key) that sets the entry's in_use to one instead of adding
\* one to it
AcquireEntry_Resets(key, was, reuse, b) ==
    /\ reuse \/ Len(status) < MaxBackends
    /\ status' = IF reuse THEN status ELSE Append(status, "connected")
    /\ destroyCalls' = IF reuse THEN destroyCalls ELSE Append(destroyCalls, 0)
    /\ backends' = IF reuse THEN backends ELSE DictSet(backends, key, b)
    /\ in_use' = (b :> 1) @@ in_use
    /\ idle_for' = (b :> 0) @@ idle_for
    /\ acquired' = [acquired EXCEPT ![key] =
                        [backend |-> b, prev |-> acquired[key].backend,
                         intervened |-> acquired[key].since, since |-> FALSE,
                         was |-> was,
                         stale |-> was # 0 /\ status[was] # "connected",
                         fresh |-> ~reuse,
                         pooled |-> Pooled(backends', key),
                         reused |-> acquired[key].reused \/ reuse]]
    /\ UNCHANGED <<destroy_all_task, cleanup_task, pathVars, scopeVars, storeVars, lifeVars, extVars>>

\* acquire_backend(key) with a key, returning the backend numbered b: what
\* it does to the pool
AcquireEntry(key, was, reuse, b) ==
    /\ reuse \/ Len(status) < MaxBackends
    /\ status' = IF reuse THEN status ELSE Append(status, "connected")
    /\ destroyCalls' = IF reuse THEN destroyCalls ELSE Append(destroyCalls, 0)
    /\ backends' = IF reuse THEN backends ELSE DictSet(backends, key, b)
    /\ in_use' = IF reuse THEN [in_use EXCEPT ![b] = @ + 1] ELSE (b :> 1) @@ in_use
    /\ idle_for' = (b :> 0) @@ idle_for
    /\ acquired' = [acquired EXCEPT ![key] =
                        [backend |-> b, prev |-> acquired[key].backend,
                         intervened |-> acquired[key].since, since |-> FALSE,
                         was |-> was,
                         stale |-> was # 0 /\ status[was] # "connected",
                         fresh |-> ~reuse,
                         pooled |-> Pooled(backends', key),
                         reused |-> acquired[key].reused \/ reuse]]
    /\ UNCHANGED <<destroy_all_task, cleanup_task, pathVars, scopeVars, storeVars, lifeVars, extVars>>

\* acquire_backend(key) called by a caller, who then holds the release closure
AcquireAs(key, was, reuse, b) ==
    /\ Len(handles) < MaxHandles
    /\ AcquireEntry(key, was, reuse, b)
    /\ handles' = Held(handles, [pooled |-> b, calls |-> 0])
    /\ UNCHANGED with_task

Acquire(key) ==
    AcquireAs(key, Pooled(backends, key), Reusable(backends, status, key),
              IF Reusable(backends, status, key) THEN Pooled(backends, key)
              ELSE Len(status) + 1)

\* a caller calls the release closure handles[i]; after MaxReleaseCalls calls
\* it drops the closure
Release(i) ==
    /\ i \in DOMAIN handles
    /\ handles[i].pooled # 0 => in_use[handles[i].pooled] > -MaxOverRelease
    /\ handles' = IF handles[i].calls + 1 = MaxReleaseCalls
                  THEN SubSeq(handles, 1, i - 1) \o SubSeq(handles, i + 1, Len(handles))
                  ELSE Held(SubSeq(handles, 1, i - 1) \o SubSeq(handles, i + 1, Len(handles)),
                            [handles[i] EXCEPT !.calls = @ + 1])
    /\ IF handles[i].pooled = 0
       THEN UNCHANGED <<in_use, idle_for>>
       ELSE /\ in_use' = [in_use EXCEPT ![handles[i].pooled] = @ - 1]
            /\ idle_for' = [idle_for EXCEPT ![handles[i].pooled] = 0]
    /\ UNCHANGED <<backends, status, acquired, destroyCalls, destroy_all_task,
                   cleanup_task, with_task,
                   pathVars, scopeVars, storeVars, lifeVars, extVars>>

\* a caller that holds backend b calls b.destroy()
ClientDestroy(b) ==
    /\ b \in DOMAIN status /\ status[b] = "connected"
    /\ status' = [status EXCEPT ![b] = "destroyed"]
    /\ destroyCalls' = [destroyCalls EXCEPT ![b] = @ + 1]
    /\ acquired' = DestroySeen(acquired, { k \in DOMAIN acquired : acquired[k].backend = b })
    /\ UNCHANGED <<backends, in_use, idle_for, handles, destroy_all_task,
                   cleanup_task, with_task,
                   pathVars, scopeVars, storeVars, lifeVars, extVars>>

\* time.time() advances by one
Tick ==
    /\ \E e \in DOMAIN idle_for : idle_for[e] <= IdleTimeout
    /\ idle_for' = [e \in DOMAIN idle_for |->
                        IF idle_for[e] <= IdleTimeout THEN idle_for[e] + 1 ELSE idle_for[e]]
    /\ UNCHANGED <<backends, status, in_use, handles, acquired, destroyCalls,
                   destroy_all_task, cleanup_task, with_task,
                   pathVars, scopeVars, storeVars, lifeVars, extVars>>

\* a destroy() awaited by the pool sets the backend's status while the pool
\* is suspended
DestroyTakesEffect(b) ==
    /\ \/ destroy_all_task.pc = "awaiting" /\ Head(destroy_all_task.todo).pooled = b
       \/ cleanup_task.pc = "awaiting" /\ cleanup_task.cur = b
    /\ status[b] = "connected"
    /\ status' = [status EXCEPT ![b] = "destroyed"]
    /\ acquired' = DestroySeen(acquired, { k \in DOMAIN acquired : acquired[k].backend = b })
    /\ UNCHANGED <<backends, in_use, idle_for, handles, destroyCalls,
                   destroy_all_task, cleanup_task, with_task,
                   pathVars, scopeVars, storeVars, lifeVars, extVars>>

\* destroy_all, from one item of its snapshot on: with nothing left it
\* returns, else it calls destroy() on the item's backend and is suspended
DestroyFrom(d, st, items, seen) ==
    /\ backends' = d
    /\ status' = st
    /\ destroy_all_task' =
           [pc |-> IF items = <<>> THEN "idle" ELSE "awaiting",
            todo |-> items,
            seen |-> IF items = <<>> THEN seen
                     ELSE [seen EXCEPT !.called = @ \cup {Head(items).pooled}]]
    /\ destroyCalls' = IF items = <<>> THEN destroyCalls
                       ELSE [destroyCalls EXCEPT ![Head(items).pooled] = @ + 1]
    /\ acquired' = DestroySeen(acquired, DOMAIN acquired)
    /\ UNCHANGED <<in_use, idle_for, handles, with_task,
                   pathVars, scopeVars, storeVars, lifeVars, extVars>>

\* destroy_all(): the periodic task is cancelled, the items are listed
DestroyAll ==
    /\ destroy_all_task.pc # "awaiting"
    /\ cleanup_task' = IF cleanup_task.pc = "off" THEN cleanup_task
                       ELSE [pc |-> "cancelled", todo |-> <<>>, cur |-> 0]
    /\ DestroyFrom(backends, status, backends,
                   [snapshot |-> backends, called |-> {}, failed |-> FALSE,
                    built |-> Len(status)])

\* the exception of an awaited destroy() propagates out of destroy_all
DestroyAllResume_Propagates(raised) ==
    /\ destroy_all_task.pc = "awaiting"
    /\ UNCHANGED cleanup_task
    /\ IF raised \/ Pooled(backends, Head(destroy_all_task.todo).key) = 0
       THEN /\ destroy_all_task' = [destroy_all_task EXCEPT !.pc = "raised",
                                                            !.todo = <<>>]
            /\ status' = IF raised THEN status
                         ELSE [status EXCEPT ![Head(destroy_all_task.todo).pooled] =
                                   "destroyed"]
            /\ acquired' = DestroySeen(acquired, DOMAIN acquired)
            /\ UNCHANGED <<backends, in_use, idle_for, handles, destroyCalls,
                           with_task, pathVars, scopeVars, storeVars, lifeVars, extVars>>
       ELSE DestroyFrom(DictDel(backends, Head(destroy_all_task.todo).key),
                        [status EXCEPT ![Head(destroy_all_task.todo).pooled] =
                             "destroyed"],
                        Tail(destroy_all_task.todo), destroy_all_task.seen)

\* the awaited destroy() is over, having raised or not: del self._backends[key],
\* which raises KeyError when the key is not there, then the next item
DestroyAllResume(raised) ==
    /\ destroy_all_task.pc = "awaiting"
    /\ UNCHANGED cleanup_task
    /\ IF Pooled(backends, Head(destroy_all_task.todo).key) = 0
       THEN /\ destroy_all_task' = [destroy_all_task EXCEPT !.pc = "raised",
                                                            !.todo = <<>>]
            /\ status' = IF raised THEN status
                         ELSE [status EXCEPT ![Head(destroy_all_task.todo).pooled] =
                                   "destroyed"]
            /\ acquired' = DestroySeen(acquired, DOMAIN acquired)
            /\ UNCHANGED <<backends, in_use, idle_for, handles, destroyCalls,
                           with_task, pathVars, scopeVars, storeVars, lifeVars, extVars>>
       ELSE DestroyFrom(DictDel(backends, Head(destroy_all_task.todo).key),
                        IF raised THEN status
                        ELSE [status EXCEPT ![Head(destroy_all_task.todo).pooled] =
                                  "destroyed"],
                        Tail(destroy_all_task.todo),
                        [destroy_all_task.seen EXCEPT !.failed = @ \/ raised])

\* the keys of the cleanup list from the first one that is still pooled on:
\* self._backends.pop(key, None) gives None for the others
RECURSIVE DropAbsent(_, _)
DropAbsent(d, keys) ==
    IF keys = <<>> \/ Pooled(d, Head(keys)) # 0 THEN keys ELSE DropAbsent(d, Tail(keys))

\* the cleanup pass, from one key of to_cleanup on: with nothing left the
\* task sleeps, else it pops the entry, calls destroy() on its backend and is
\* suspended
CleanupFrom(d, st, keys) ==
    /\ backends' = IF keys = <<>> THEN d ELSE DictDel(d, Head(keys))
    /\ status' = st
    /\ cleanup_task' = IF keys = <<>> THEN [pc |-> "sleeping", todo |-> <<>>, cur |-> 0]
                       ELSE [pc |-> "awaiting", todo |-> Tail(keys),
                             cur |-> Pooled(d, Head(keys))]
    /\ destroyCalls' = IF keys = <<>> THEN destroyCalls
                       ELSE [destroyCalls EXCEPT ![Pooled(d, Head(keys))] = @ + 1]
    /\ acquired' = IF keys = <<>> THEN acquired ELSE DestroySeen(acquired, DOMAIN acquired)
    /\ UNCHANGED <<in_use, idle_for, handles, destroy_all_task, with_task,
                   pathVars, scopeVars, storeVars, lifeVars, extVars>>

\* to_cleanup
ToCleanup(d) ==
    SelectSeq(d, LAMBDA item : /\ in_use[item.pooled] = 0
                               /\ idle_for[item.pooled] > IdleTimeout)

\* the periodic task wakes up: _cleanup_idle_backends()
CleanupIdleBackends ==
    /\ cleanup_task.pc = "sleeping"
    /\ CleanupFrom(backends, status,
                   [i \in DOMAIN ToCleanup(backends) |-> ToCleanup(backends)[i].key])

\* a cleanup task that ends with the first destroy() that raises
CleanupResume_StopsOnError(raised) ==
    /\ cleanup_task.pc = "awaiting"
    /\ IF raised
       THEN /\ cleanup_task' = [pc |-> "off", todo |-> <<>>, cur |-> 0]
            /\ UNCHANGED <<backends, status, destroyCalls, acquired, in_use, idle_for,
                           handles, destroy_all_task, with_task,
                           pathVars, scopeVars, storeVars, lifeVars, extVars>>
       ELSE CleanupFrom(backends, [status EXCEPT ![cleanup_task.cur] = "destroyed"],
                        DropAbsent(backends, cleanup_task.todo))

\* the awaited destroy() is over, having raised or not: the next key
CleanupResume(raised) ==
    /\ cleanup_task.pc = "awaiting"
    /\ CleanupFrom(backends,
                   IF raised THEN status
                   ELSE [status EXCEPT ![cleanup_task.cur] = "destroyed"],
                   DropAbsent(backends, cleanup_task.todo))

NextPool ==
    \/ AcquireUnpooled
    \/ \E key \in PoolKeys : Acquire(key)
    \/ \E i \in 1..MaxHandles : Release(i)
    \/ \E b \in 1..MaxBackends : ClientDestroy(b)
    \/ Tick
    \/ \E b \in 1..MaxBackends : DestroyTakesEffect(b)
    \/ DestroyAll
    \/ \E raised \in BOOLEAN : DestroyAllResume(raised)
    \/ CleanupIdleBackends
    \/ \E raised \in BOOLEAN : CleanupResume(raised)

SpecPool == InitPool /\ [][NextPool]_vars

-----------------------------------------------------------------------------
(* SpecWith: with_backend calls, one at a time, among callers that acquire, *)
(* release and destroy.  with_task.before is the entry's in_use when the    *)
(* call began (0 for an entry the call constructs), fn what fn(backend)     *)
(* did, outcome what with_backend did.                                      *)

\* backend, release = await self.acquire_backend(key, config_override), then
\* fn(backend) is awaited
WithBackendAs(key, was, reuse, b) ==
    /\ with_task.pc \in {"idle", "done"}
    /\ AcquireEntry(key, was, reuse, b)
    /\ with_task' = [pc |-> "fn", pooled |-> b,
                     before |-> IF reuse THEN in_use[b] ELSE 0,
                     fn |-> "none", outcome |-> "none"]
    /\ UNCHANGED handles

WithBackendEnter(key) ==
    WithBackendAs(key, Pooled(backends, key), Reusable(backends, status, key),
                  IF Reusable(backends, status, key) THEN Pooled(backends, key)
                  ELSE Len(status) + 1)

\* with_backend(fn) with key None: the backend is not pooled
WithBackendUnpooled ==
    /\ with_task.pc \in {"idle", "done"}
    /\ Len(status) < MaxBackends
    /\ status' = Append(status, "connected")
    /\ destroyCalls' = Append(destroyCalls, 0)
    /\ with_task' = [pc |-> "fn", pooled |-> 0, before |-> 0, fn |-> "none",
                     outcome |-> "none"]
    /\ UNCHANGED <<backends, in_use, idle_for, handles, acquired, destroy_all_task,
                   cleanup_task, pathVars, scopeVars, storeVars, lifeVars, extVars>>

\* await fn(backend) is over: fn returned or raised
FnEnds(raised) ==
    /\ with_task.pc = "fn"
    /\ with_task' = [with_task EXCEPT !.pc = "finally",
                                      !.fn = IF raised THEN "raised" ELSE "returned"]
    /\ UNCHANGED <<backends, status, in_use, idle_for, handles, acquired,
                   destroyCalls, destroy_all_task, cleanup_task,
                   pathVars, scopeVars, storeVars, lifeVars, extVars>>

\* with_backend leaves without calling release() when fn raised
WithBackendExit_Leaks(e) ==
    /\ with_task.pc = "finally"
    /\ IF e = 0 \/ with_task.fn = "raised"
       THEN UNCHANGED <<in_use, idle_for>>
       ELSE /\ in_use' = [in_use EXCEPT ![e] = @ - 1]
            /\ idle_for' = [idle_for EXCEPT ![e] = 0]
    /\ with_task' = [with_task EXCEPT !.pc = "done", !.outcome = with_task.fn]
    /\ UNCHANGED <<backends, status, handles, acquired, destroyCalls,
                   destroy_all_task, cleanup_task, pathVars, scopeVars, storeVars, lifeVars, extVars>>

\* finally: release(), of the entry e the call acquired (0: lambda: None);
\* then the value of fn is returned or its exception propagates
WithBackendExit(e) ==
    /\ with_task.pc = "finally"
    /\ IF e = 0
       THEN UNCHANGED <<in_use, idle_for>>
       ELSE /\ in_use' = [in_use EXCEPT ![e] = @ - 1]
            /\ idle_for' = [idle_for EXCEPT ![e] = 0]
    /\ with_task' = [with_task EXCEPT !.pc = "done", !.outcome = with_task.fn]
    /\ UNCHANGED <<backends, status, handles, acquired, destroyCalls,
                   destroy_all_task, cleanup_task, pathVars, scopeVars, storeVars, lifeVars, extVars>>

NextWith ==
    \/ \E key \in PoolKeys : WithBackendEnter(key)
    \/ WithBackendUnpooled
    \/ \E raised \in BOOLEAN : FnEnds(raised)
    \/ WithBackendExit(with_task.pooled)
    \/ \E key \in PoolKeys : Acquire(key)
    \/ \E i \in 1..MaxHandles : Release(i)
    \/ \E b \in 1..MaxBackends : ClientDestroy(b)

SpecWith == InitPool /\ [][NextWith]_vars

-----------------------------------------------------------------------------
(* Claims about the pool (SpecPool).                                       *)

\* C11: when with_backend leaves, whether fn returned or raised, release()
\* has been called exactly once: the entry's in_use is one less than before
\* that step, which is its value before the call whenever the other callers
\* have left it as the call made it; no release closure is left with the
\* callers; and with_backend raises exactly when fn raised.
C11_WithBackendReleasesOnce ==
    [][(with_task.pc = "finally" /\ with_task'.pc = "done")
          => /\ with_task'.outcome = with_task.fn
             /\ handles' = handles
             /\ with_task.pooled = 0 => in_use' = in_use
             /\ with_task.pooled # 0 =>
                    /\ in_use'[with_task.pooled] = in_use[with_task.pooled] - 1
                    /\ in_use[with_task.pooled] = with_task.before + 1
                           => in_use'[with_task.pooled] = with_task.before
                    /\ \A e \in DOMAIN in_use \ {with_task.pooled} :
                           in_use'[e] = in_use[e]]_vars

C11_Witness ==
    /\ with_task.pc = "done" /\ with_task.outcome = "raised"
    /\ with_task.pooled # 0 /\ with_task.before > 0
    /\ in_use[with_task.pooled] = with_task.before

\* C12: every step by which the cleanup pass evicts an entry (pops it and
\* calls destroy() on its backend) finds the entry not in use (in_use > 0
\* never holds of it).
C12_EvictsOnlyIdle ==
    [][(cleanup_task'.pc = "awaiting" /\ cleanup_task' # cleanup_task)
          => ~(in_use[cleanup_task'.cur] > 0)]_vars

\* the backends of the items destroy_all listed
Listed(seen) == { seen.snapshot[i].pooled : i \in DOMAIN seen.snapshot }

\* C13: destroy_all leaves the periodic task cancelled; an exception of a
\* backend's destroy() never ends it; and when it returns, destroy() has
\* been called on every backend that was pooled when it was called, whether
\* or not one of these calls raised, none of those entries is pooled, and
\* the pool is empty if no backend was constructed meanwhile.
C13_DestroyAllDestroysAll ==
    [][/\ (destroy_all_task.pc = "awaiting" /\ destroy_all_task'.pc = "raised")
              => Pooled(backends, Head(destroy_all_task.todo).key) = 0
       /\ (destroy_all_task' # destroy_all_task /\ destroy_all_task'.pc = "idle")
              => /\ cleanup_task'.pc \in {"off", "cancelled"}
                 /\ destroy_all_task'.seen.called = Listed(destroy_all_task'.seen)
                 /\ \A b \in Listed(destroy_all_task'.seen) : destroyCalls'[b] > 0
                 /\ \A i \in DOMAIN backends' :
                        backends'[i].pooled \notin Listed(destroy_all_task'.seen)
                 /\ Len(status') = destroy_all_task'.seen.built
                        => backends' = <<>>]_vars

C13_Witness ==
    /\ destroy_all_task.pc = "idle"
    /\ Cardinality(Listed(destroy_all_task.seen)) = MaxBackends
    /\ destroy_all_task.seen.failed
    /\ destroy_all_task.seen.called = Listed(destroy_all_task.seen)
    /\ cleanup_task.pc = "cancelled"
    /\ backends = <<>>

\* the release handles of unpooled backends that callers hold
UnpooledHandles(held) == SelectSeq(held, LAMBDA h : h.pooled = 0)

\* C14: acquire_backend(None) constructs a new backend (numbered after every
\* backend constructed before) and changes neither the pooled entries nor
\* their counters; a call of the release handle it returned changes no pool
\* state and no backend.
C14_UnpooledLeavesPoolAlone ==
    [][UnpooledHandles(handles') # UnpooledHandles(handles)
          => /\ backends' = backends
             /\ in_use' = in_use
             /\ idle_for' = idle_for
             /\ IF Len(UnpooledHandles(handles')) > Len(UnpooledHandles(handles))
                THEN status' = Append(status, "connected")
                ELSE status' = status]_vars

C14_Witness ==
    /\ \E i \in DOMAIN handles : handles[i].pooled = 0 /\ handles[i].calls > 0
    /\ \E i \in DOMAIN backends : in_use[backends[i].pooled] > 0

\* C9: every pooled entry has in_use >= 0 in every reachable state.
C9_InUseNeverNegative == \A e \in DOMAIN in_use : in_use[e] >= 0

\* the release closures of entry e among those the callers hold, and how many
\* of them have not been called
HandlesOf(held, e) == SelectSeq(held, LAMBDA h : h.pooled = e)
Unreleased(held, e) ==
    Cardinality({i \in DOMAIN held : held[i].pooled = e /\ held[i].calls = 0})

InUseBefore(e) == IF e \in DOMAIN in_use THEN in_use[e] ELSE 0

\* C34: a keyed acquire adds exactly one to the in_use of the entry it
\* returns and calls destroy() on no backend, the stale one it replaces
\* included; a call of a release closure takes exactly one from the in_use
\* of the entry the closure was made for; no other step changes an entry's
\* in_use, so a closure of a replaced entry never changes the replacement's;
\* and as long as no closure is called a second time, every entry's in_use is
\* the number of its closures not yet called.
C34_InUseCountsUnreleasedHandles ==
    [][/\ \A e \in DOMAIN in_use' :
            /\ Unreleased(handles', e) = Unreleased(handles, e) + 1
                   => /\ in_use'[e] = InUseBefore(e) + 1
                      /\ \A b \in DOMAIN destroyCalls :
                             destroyCalls'[b] = destroyCalls[b]
            /\ (HandlesOf(handles', e) # HandlesOf(handles, e)
                    /\ Unreleased(handles', e) <= Unreleased(handles, e))
                   => in_use'[e] = InUseBefore(e) - 1
            /\ HandlesOf(handles', e) = HandlesOf(handles, e)
                   => in_use'[e] = InUseBefore(e)
       /\ ((\A e \in DOMAIN in_use : in_use[e] = Unreleased(handles, e))
               /\ ~\E e \in DOMAIN in_use :
                      /\ HandlesOf(handles', e) # HandlesOf(handles, e)
                      /\ Unreleased(handles', e) = Unreleased(handles, e))
              => \A e \in DOMAIN in_use' : in_use'[e] = Unreleased(handles', e)]_vars

\* the closure of a replaced entry has been called once: its own entry is at
\* zero, the replacement still counts its caller, and destroy() was called
\* on the stale backend by its holder only
C34_Witness ==
    \E k \in PoolKeys :
        /\ acquired[k].stale /\ acquired[k].fresh
        /\ Pooled(backends, k) = acquired[k].backend
        /\ in_use[acquired[k].backend] = 1
        /\ in_use[acquired[k].was] = 0
        /\ destroyCalls[acquired[k].was] = 1
        /\ \E i \in DOMAIN handles :
               handles[i].pooled = acquired[k].was /\ handles[i].calls = 1
        /\ \E i \in DOMAIN handles :
               handles[i].pooled = acquired[k].backend /\ handles[i].calls = 0

\* the entries of the pool
Entries(d) == { d[i] : i \in DOMAIN d }

\* C39: with keyed acquire_backend calls running while destroy_all is
\* suspended in a backend's destroy(), every entry that a step of
\* destroy_all takes out of the pool is one on whose backend destroy() has
\* been called, and destroy_all does not raise.
C39_DestroyAllRemovesOnlyDestroyed ==
    [][destroy_all_task.pc = "awaiting" /\ destroy_all_task' # destroy_all_task
          => /\ destroy_all_task'.pc # "raised"
             /\ \A item \in Entries(backends) \ Entries(backends') :
                    destroyCalls[item.pooled] >= 1]_vars

(* SpecCleanup: the pool with periodic cleanup enabled and no destroy_all.  *)
(* Time passes, asyncio.sleep returns and an awaited destroy() ends, having *)
(* returned or raised.                                                     *)

InitCleanup == InitPool /\ cleanup_task.pc = "sleeping"

NextCleanup ==
    \/ AcquireUnpooled
    \/ \E key \in PoolKeys : Acquire(key)
    \/ \E i \in 1..MaxHandles : Release(i)
    \/ \E b \in 1..MaxBackends : ClientDestroy(b)
    \/ Tick
    \/ \E b \in 1..MaxBackends : DestroyTakesEffect(b)
    \/ CleanupIdleBackends
    \/ \E raised \in BOOLEAN : CleanupResume(raised)

SpecCleanup ==
    /\ InitCleanup /\ [][NextCleanup]_vars
    /\ WF_vars(Tick)
    /\ WF_vars(CleanupIdleBackends)
    /\ WF_vars(\E raised \in BOOLEAN : CleanupResume(raised))

IsPooled(e) == \E i \in DOMAIN backends : backends[i].pooled = e

IdleInPool(e) == IsPooled(e) /\ e \in DOMAIN in_use /\ in_use[e] = 0

EvictedAndDestroyed(e) ==
    ~IsPooled(e) /\ e \in DOMAIN destroyCalls /\ destroyCalls[e] >= 1

InUseAgain(e) == e \in DOMAIN in_use /\ in_use[e] # 0

\* C35: with periodic cleanup enabled, a pooled entry that is not in use is
\* eventually out of the pool with destroy() called on its backend, unless
\* its in_use leaves zero before; and a cleanup pass suspended in a
\* destroy(), which may raise, always gets back to sleeping for the next pass.
C35_IdleEntryEventuallyEvicted ==
    /\ \A e \in 1..MaxBackends :
           IdleInPool(e) ~> (EvictedAndDestroyed(e) \/ InUseAgain(e))
    /\ (cleanup_task.pc = "awaiting") ~> (cleanup_task.pc = "sleeping")

\* both entries were evicted, the destroy() of the first raised (its backend
\* is still connected), and the task sleeps until the next pass
C35_Witness ==
    /\ cleanup_task.pc = "sleeping" /\ backends = <<>>
    /\ Len(status) = 2
    /\ acquired["a"].backend = 1 /\ acquired["b"].backend = 2
    /\ destroyCalls = <<1, 1>>
    /\ status = <<"connected", "destroyed">>
    /\ in_use[1] = 0 /\ in_use[2] = 0

\* C10: of two successive acquire_backend calls with the same key, the second
\* returns the backend the first returned unless a destroy came between
\* them (destroy() was called or took effect on that backend, or destroy_all
\* or an eviction took a step); and a call that finds the pooled backend not
\* CONNECTED returns a newly constructed backend, different from it, which is
\* then the one pooled under the key.
C10_ReuseUntilNotConnected ==
    \A k \in PoolKeys :
        acquired[k].backend # 0 =>
            /\ (acquired[k].prev # 0 /\ ~acquired[k].intervened)
                   => acquired[k].backend = acquired[k].prev
            /\ acquired[k].stale
                   => /\ acquired[k].fresh
                      /\ acquired[k].backend # acquired[k].was
                      /\ acquired[k].pooled = acquired[k].backend

C10_Witness ==
    \E k \in PoolKeys :
        /\ acquired[k].reused
        /\ acquired[k].prev # 0 /\ acquired[k].intervened /\ acquired[k].stale
        /\ acquired[k].fresh /\ acquired[k].backend # acquired[k].prev
        /\ Pooled(backends, k) = acquired[k].backend

-----------------------------------------------------------------------------
(* SpecStatus: backends/status.py, one ConnectionStatusManager driven by    *)
(* set_status, on_status_change, the unsubscribe closures and               *)
(* clear_listeners.  A listener is a callback 1..MaxListeners that returns  *)
(* or raises an Exception each time it is called.  _listeners is a python   *)
(* set: list(self._listeners) yields its members in an order that depends   *)
(* on the callbacks' hashes, so every order is taken.                       *)

MaxListeners == 2     \* callbacks that register with one status manager
MaxSetStatus == 3     \* set_status calls made directly on one status manager
MaxCloseables == 2    \* resources tracked on one backend over its life
MaxScopes == 2        \* scoped backends created from one backend, nested ones included
MaxDestroys == 2      \* destroy() calls made on one backend

ConnectionStatus ==
    {"connected", "connecting", "disconnected", "reconnecting", "destroyed"}

Listeners == 1..MaxListeners

StatusChangeEvent(from, to) == [from_status |-> from, to_status |-> to]

\* list(s) of a python set s: its members, each once, in some order
ListOf(s) ==
    { f \in [1..Cardinality(s) -> s] :
          \A i, j \in 1..Cardinality(s) : i # j => f[i] # f[j] }

\* the listener calls of one set_status call, in the order they are made
Called(order, raisers, event) ==
    [i \in 1..Len(order) |->
        [listener |-> order[i], event |-> event, raised |-> order[i] \in raisers]]

\* the calls up to and including the first that raises
UntilRaise(calls) ==
    IF \E i \in DOMAIN calls : calls[i].raised
    THEN SubSeq(calls, 1, CHOOSE i \in DOMAIN calls :
                              /\ calls[i].raised
                              /\ \A j \in 1..(i - 1) : ~calls[j].raised)
    ELSE calls

Notify(calls) ==
    [l \in Listeners |->
        received[l] + Cardinality({i \in DOMAIN calls : calls[i].listener = l})]

\* set_status without the try/except around the listener call
set_status_Propagates(new_status, order, raisers) ==
    /\ set_calls' = set_calls + 1
    /\ IF mgr_status = new_status
       THEN /\ last_set' = [new_status |-> new_status, was |-> mgr_status,
                            listeners |-> registered, called |-> <<>>,
                            outcome |-> "returned"]
            /\ UNCHANGED <<mgr_status, received>>
       ELSE LET calls == UntilRaise(Called(order, raisers,
                                           StatusChangeEvent(mgr_status, new_status)))
            IN  /\ mgr_status' = new_status
                /\ received' = Notify(calls)
                /\ last_set' = [new_status |-> new_status, was |-> mgr_status,
                                listeners |-> registered, called |-> calls,
                                outcome |-> IF \E i \in DOMAIN calls : calls[i].raised
                                            THEN "raised" ELSE "returned"]

\* set_status without the early return for an unchanged status
set_status_Always(new_status, order, raisers) ==
    /\ set_calls' = set_calls + 1
    /\ mgr_status' = new_status
    /\ received' = Notify(Called(order, raisers,
                                 StatusChangeEvent(mgr_status, new_status)))
    /\ last_set' = [new_status |-> new_status, was |-> mgr_status,
                    listeners |-> registered,
                    called |-> Called(order, raisers,
                                      StatusChangeEvent(mgr_status, new_status)),
                    outcome |-> "returned"]

\* set_status(new_status); order is list(self._listeners), raisers the
\* listeners that raise an Exception when called
set_status(new_status, order, raisers) ==
    /\ set_calls' = set_calls + 1
    /\ IF mgr_status = new_status
       THEN /\ last_set' = [new_status |-> new_status, was |-> mgr_status,
                            listeners |-> registered, called |-> <<>>,
                            outcome |-> "returned"]
            /\ UNCHANGED <<mgr_status, received>>
       ELSE /\ mgr_status' = new_status
            /\ received' = Notify(Called(order, raisers,
                                         StatusChangeEvent(mgr_status, new_status)))
            /\ last_set' = [new_status |-> new_status, was |-> mgr_status,
                            listeners |-> registered,
                            called |-> Called(order, raisers,
                                              StatusChangeEvent(mgr_status, new_status)),
                            outcome |-> "returned"]

SetStatus ==
    /\ set_calls < MaxSetStatus
    /\ \E new_status \in ConnectionStatus, order \in ListOf(listeners),
          raisers \in SUBSET listeners :
           set_status(new_status, order, raisers)
    /\ UNCHANGED <<listeners, registered, closeables, closes, active_scopes,
                   destroy_calls, scope_objs,
                   pathVars, scopeVars, storeVars, poolVars, extVars>>

on_status_change(cb) ==
    /\ listeners' = listeners \cup {cb}
    /\ registered' = IF cb \in listeners THEN registered ELSE Append(registered, cb)
    /\ UNCHANGED <<mgr_status, received, last_set, set_calls, closeables, closes,
                   active_scopes, destroy_calls,
                   pathVars, scopeVars, storeVars, poolVars, extVars>>

OnStatusChange ==
    /\ \E cb \in Listeners \ listeners : on_status_change(cb)
    /\ UNCHANGED scope_objs

\* the closure on_status_change(cb) returned, called while cb is registered
unsubscribe(cb) ==
    /\ cb \in listeners
    /\ listeners' = listeners \ {cb}
    /\ registered' = SelectSeq(registered, LAMBDA l : l # cb)
    /\ UNCHANGED <<mgr_status, received, last_set, set_calls, closeables, closes,
                   active_scopes, destroy_calls, scope_objs,
                   pathVars, scopeVars, storeVars, poolVars, extVars>>

Unsubscribe == \E cb \in Listeners : unsubscribe(cb)

clear_listeners ==
    /\ listeners # {}
    /\ listeners' = {}
    /\ registered' = <<>>
    /\ UNCHANGED <<mgr_status, received, last_set, set_calls, closeables, closes,
                   active_scopes, destroy_calls, scope_objs,
                   pathVars, scopeVars, storeVars, poolVars, extVars>>

InitStatus ==
    /\ mgr_status \in ConnectionStatus
    /\ listeners = {}
    /\ registered = <<>>
    /\ received = [l \in Listeners |-> 0]
    /\ last_set = NoResult
    /\ set_calls = 0
    /\ closeables = {} /\ closes = <<>> /\ active_scopes = {}
    /\ destroy_calls = <<>>
    /\ scope_objs = <<>>
    /\ PathIdle /\ ScopeIdle /\ StoreIdle /\ PoolIdle /\ ExtIdle

NextStatus ==
    \/ SetStatus
    \/ OnStatusChange
    \/ Unsubscribe
    \/ clear_listeners

SpecStatus == InitStatus /\ [][NextStatus]_vars

-----------------------------------------------------------------------------
(* SpecDestroy: one backend (backends/local.py; backends/memory.py has the  *)
(* same lifecycle code and also empties its _store in destroy), its status  *)
(* manager, tracked resources and scopes, and the destroy() calls made on   *)
(* it.  destroy() suspends at each await closeable.close(), so other calls  *)
(* on the backend, a further destroy() among them, run between two of its   *)
(* steps.  A tracked resource is numbered in the order of tracking.  In a   *)
(* destroy_calls record, listed is what list(self._closeables) held,        *)
(* closed the resources the call has called close() on, failed whether a    *)
(* close() it awaited raised, detached the scopes it removed, emitted the   *)
(* number of listener calls its set_status made, and overlapped whether     *)
(* another destroy() call ran while it did.  A scoped backend is numbered   *)
(* in the order of construction; in its scope_objs record, nested is        *)
(* whether it was made by another scoped backend's scope(), destroyed       *)
(* whether its destroy() has been called, and subscribed the callbacks      *)
(* registered through its on_status_change.                                 *)

track_closeable ==
    /\ Len(closes) < MaxCloseables
    /\ closeables' = closeables \cup {Len(closes) + 1}
    /\ closes' = Append(closes, 0)
    /\ UNCHANGED <<mgr_status, listeners, registered, received, last_set, set_calls,
                   active_scopes, destroy_calls, scope_objs,
                   pathVars, scopeVars, storeVars, poolVars, extVars>>

\* LocalFilesystemBackend.scope: the scoped backend is constructed and added
\* to self._active_scopes
scope ==
    /\ Len(scope_objs) < MaxScopes
    /\ scope_objs' = Append(scope_objs, [nested |-> FALSE, destroyed |-> FALSE,
                                         subscribed |-> {}])
    /\ active_scopes' = active_scopes \cup {Len(scope_objs) + 1}
    /\ UNCHANGED <<mgr_status, listeners, registered, received, last_set, set_calls,
                   closeables, closes, destroy_calls,
                   pathVars, scopeVars, storeVars, poolVars, extVars>>

\* ScopedFilesystemBackend.scope, called on the scoped backend s: the nested
\* scoped backend is constructed on s's parent and returned
ScopedScope(s) ==
    /\ Len(scope_objs) < MaxScopes
    /\ scope_objs' = Append(scope_objs, [nested |-> TRUE, destroyed |-> FALSE,
                                         subscribed |-> {}])
    /\ UNCHANGED <<mgr_status, listeners, registered, received, last_set, set_calls,
                   closeables, closes, active_scopes, destroy_calls,
                   pathVars, scopeVars, storeVars, poolVars, extVars>>

\* a scoped backend's destroy() also destroying its parent
on_child_destroyed_Cascades(child) ==
    /\ active_scopes' = {}
    /\ closeables' = {}
    /\ mgr_status' = "destroyed"
    /\ listeners' = {}
    /\ registered' = <<>>
    /\ UNCHANGED <<received, last_set, set_calls, closes, destroy_calls,
                   pathVars, scopeVars, storeVars, poolVars, extVars>>

on_child_destroyed(child) ==
    /\ active_scopes' = active_scopes \ {child}
    /\ UNCHANGED <<mgr_status, listeners, registered, received, last_set, set_calls,
                   closeables, closes, destroy_calls,
                   pathVars, scopeVars, storeVars, poolVars, extVars>>

\* ScopedFilesystemBackend.destroy, called on the scoped backend s
ScopedDestroy(s) ==
    /\ ~scope_objs[s].destroyed
    /\ on_child_destroyed(s)
    /\ scope_objs' = [scope_objs EXCEPT ![s].destroyed = TRUE]

\* a scoped backend with a status of its own
ScopedStatus_Own(s) == IF scope_objs[s].destroyed THEN "destroyed" ELSE "connected"

\* ScopedFilesystemBackend.status of the scoped backend s
ScopedStatus(s) == mgr_status

\* ScopedFilesystemBackend.on_status_change, called on the scoped backend s
ScopedOnStatusChange(s) ==
    \E cb \in Listeners \ listeners :
        /\ on_status_change(cb)
        /\ scope_objs' = [scope_objs EXCEPT ![s].subscribed = @ \cup {cb}]

\* the end of destroy() without clear_listeners()
DestroyEnd_KeepsListeners(calls, d, order, raisers) ==
    /\ closeables' = {}
    /\ active_scopes' = {}
    /\ set_status("destroyed", order, raisers)
    /\ destroy_calls' = [calls EXCEPT ![d].pc = "returned", ![d].todo = <<>>,
                             ![d].detached = active_scopes,
                             ![d].emitted = IF mgr_status = "destroyed"
                                            THEN 0 ELSE Len(order)]
    /\ UNCHANGED <<closes, listeners, registered>>

\* the end of destroy() without self._closeables.clear()
DestroyEnd_KeepsCloseables(calls, d, order, raisers) ==
    /\ active_scopes' = {}
    /\ set_status("destroyed", order, raisers)
    /\ listeners' = {}
    /\ registered' = <<>>
    /\ destroy_calls' = [calls EXCEPT ![d].pc = "returned", ![d].todo = <<>>,
                             ![d].detached = active_scopes,
                             ![d].emitted = IF mgr_status = "destroyed"
                                            THEN 0 ELSE Len(order)]
    /\ UNCHANGED <<closes, closeables>>

\* destroy() after its loop: the two clear() calls, set_status(DESTROYED)
\* and clear_listeners()
DestroyEnd(calls, d, order, raisers) ==
    /\ closeables' = {}
    /\ active_scopes' = {}
    /\ set_status("destroyed", order, raisers)
    /\ listeners' = {}
    /\ registered' = <<>>
    /\ destroy_calls' = [calls EXCEPT ![d].pc = "returned", ![d].todo = <<>>,
                             ![d].detached = active_scopes,
                             ![d].emitted = IF mgr_status = "destroyed"
                                            THEN 0 ELSE Len(order)]
    /\ UNCHANGED closes

\* destroy() from the head of items on, up to its next await or its return
DestroyLoop(calls, d, items, order, raisers) ==
    /\ IF items = <<>>
       THEN DestroyEnd(calls, d, order, raisers)
       ELSE /\ closes' = [closes EXCEPT ![Head(items)] = @ + 1]
            /\ destroy_calls' = [calls EXCEPT ![d].pc = "closing", ![d].todo = items,
                                     ![d].closed = @ \cup {Head(items)}]
            /\ UNCHANGED <<mgr_status, listeners, registered, received, last_set,
                           set_calls, closeables, active_scopes>>
    /\ UNCHANGED <<scope_objs, pathVars, scopeVars, storeVars, poolVars, extVars>>

Closing(calls) == \E i \in DOMAIN calls : calls[i].pc = "closing"

\* a destroy() call begins
Destroy ==
    /\ Len(destroy_calls) < MaxDestroys
    /\ \E items \in ListOf(closeables), order \in ListOf(listeners),
          raisers \in SUBSET listeners :
           DestroyLoop(Append([i \in DOMAIN destroy_calls |->
                                  IF destroy_calls[i].pc = "closing"
                                  THEN [destroy_calls[i] EXCEPT !.overlapped = TRUE]
                                  ELSE destroy_calls[i]],
                              [pc |-> "closing", todo |-> items,
                               listed |-> closeables, closed |-> {}, emitted |-> 0,
                               detached |-> {},
                               failed |-> FALSE,
                               overlapped |-> Closing(destroy_calls)]),
                       Len(destroy_calls) + 1, items, order, raisers)

\* destroy() without the try/except around await closeable.close()
DestroyResume_Propagates(d, raised) ==
    /\ destroy_calls[d].pc = "closing"
    /\ IF raised
       THEN /\ destroy_calls' = [destroy_calls EXCEPT ![d].pc = "raised",
                                     ![d].todo = <<>>, ![d].failed = TRUE]
            /\ UNCHANGED <<mgr_status, listeners, registered, received, last_set,
                           set_calls, closeables, closes, active_scopes, scope_objs,
                           pathVars, scopeVars, storeVars, poolVars, extVars>>
       ELSE \E order \in ListOf(listeners), raisers \in SUBSET listeners :
                DestroyLoop(destroy_calls, d, Tail(destroy_calls[d].todo),
                            order, raisers)

\* the close() a destroy() call awaits returns or raises an Exception
DestroyResume(d, raised) ==
    /\ destroy_calls[d].pc = "closing"
    /\ \E order \in ListOf(listeners), raisers \in SUBSET listeners :
           DestroyLoop([destroy_calls EXCEPT ![d].failed = @ \/ raised],
                       d, Tail(destroy_calls[d].todo), order, raisers)

InitDestroy ==
    /\ mgr_status = "connected"
    /\ listeners = {}
    /\ registered = <<>>
    /\ received = [l \in Listeners |-> 0]
    /\ last_set = NoResult
    /\ set_calls = 0
    /\ closeables = {} /\ closes = <<>> /\ active_scopes = {}
    /\ destroy_calls = <<>>
    /\ scope_objs = <<>>
    /\ PathIdle /\ ScopeIdle /\ StoreIdle /\ PoolIdle /\ ExtIdle

NextDestroy ==
    \/ OnStatusChange
    \/ Unsubscribe
    \/ track_closeable
    \/ scope
    \/ \E s \in DOMAIN scope_objs : ScopedDestroy(s)
    \/ Destroy
    \/ \E d \in DOMAIN destroy_calls, raised \in BOOLEAN : DestroyResume(d, raised)

SpecDestroy == InitDestroy /\ [][NextDestroy]_vars

-----------------------------------------------------------------------------
(* SpecScoped: one backend without tracked resources, the scoped backends   *)
(* made from it and from one another, the listeners registered on the       *)
(* backend and through the scoped backends, and the destroy() calls on the  *)
(* backend and on the scoped backends.  With nothing to close, the          *)
(* backend's destroy() runs to its end without suspending.                  *)

NextScoped ==
    \/ OnStatusChange
    \/ Unsubscribe
    \/ scope
    \/ \E s \in DOMAIN scope_objs : ScopedScope(s)
    \/ \E s \in DOMAIN scope_objs : ScopedDestroy(s)
    \/ \E s \in DOMAIN scope_objs : ScopedOnStatusChange(s)
    \/ Destroy

SpecScoped == InitDestroy /\ [][NextScoped]_vars

-----------------------------------------------------------------------------
(* Claims about ConnectionStatusManager (SpecStatus).                       *)

ListenersOf(calls) == [i \in DOMAIN calls |-> calls[i].listener]

\* C15: DESTROYED is terminal: once the manager's status is DESTROYED, no
\* later set_status call, whatever its argument, changes it.
C15_DestroyedIsTerminal ==
    [][mgr_status = "destroyed" => mgr_status' = "destroyed"]_vars

\* C16: a set_status call that changes the status calls every registered
\* listener exactly once, before it returns, with the event {from: the
\* previous status, to: the new status}, in the order the listeners were
\* registered.
C16_OneEventInRegistrationOrder ==
    (last_set # NoResult /\ last_set.new_status # last_set.was)
        => /\ ListenersOf(last_set.called) = last_set.listeners
           /\ \A i \in DOMAIN last_set.called :
                  last_set.called[i].event =
                      StatusChangeEvent(last_set.was, last_set.new_status)

\* C17: when a listener raises during a set_status call, the status has
\* changed all the same, every registered listener has been called with the
\* event exactly once, and set_status returns without raising.
C17_RaisingListenerIsolated ==
    (last_set # NoResult /\ \E i \in DOMAIN last_set.called : last_set.called[i].raised)
        => /\ mgr_status = last_set.new_status
           /\ last_set.new_status # last_set.was
           /\ last_set.outcome = "returned"
           /\ \A n \in DOMAIN last_set.listeners :
                  Cardinality({i \in DOMAIN last_set.called :
                                   last_set.called[i].listener = last_set.listeners[n]}) = 1
           /\ \A i \in DOMAIN last_set.called :
                  last_set.called[i].event =
                      StatusChangeEvent(last_set.was, last_set.new_status)

C17_Witness ==
    /\ last_set # NoResult
    /\ Len(last_set.called) = MaxListeners
    /\ last_set.called[1].raised
    /\ ~last_set.called[MaxListeners].raised
    /\ received[last_set.called[MaxListeners].listener] > 0

\* C18: a set_status call whose argument equals the current status changes
\* nothing: the status stays, no listener is called, and the call returns.
C18_SameStatusIsNoOp ==
    [][(set_calls' # set_calls /\ last_set'.new_status = mgr_status)
          => /\ mgr_status' = mgr_status
             /\ received' = received
             /\ last_set'.called = <<>>
             /\ last_set'.outcome = "returned"
             /\ listeners' = listeners /\ registered' = registered]_vars

C18_Witness ==
    /\ last_set # NoResult
    /\ last_set.new_status = last_set.was
    /\ last_set.listeners # <<>>
    /\ \E l \in Listeners : received[l] > 0
    /\ mgr_status = last_set.was

-----------------------------------------------------------------------------
(* Claims about a backend's destroy() (SpecDestroy).                        *)

ReturnsNow(d) ==
    /\ d \in DOMAIN destroy_calls'
    /\ destroy_calls'[d].pc = "returned"
    /\ d \in DOMAIN destroy_calls => destroy_calls[d].pc # "returned"

\* C19: the destroy() that takes a CONNECTED backend to DESTROYED calls each
\* listener registered at that time exactly once, with the event {from:
\* connected, to: destroyed}, calls no other listener, and leaves the
\* listener set empty; once the backend is DESTROYED no listener is called
\* any more, whichever listeners register and whichever further destroy()
\* calls are made.
C19_DestroyNotifiesOnceThenClears ==
    [][/\ (mgr_status = "connected" /\ mgr_status' = "destroyed")
              => /\ \E d \in DOMAIN destroy_calls' : ReturnsNow(d)
                 /\ last_set'.was = "connected" /\ last_set'.new_status = "destroyed"
                 /\ \A l \in Listeners :
                        received'[l] = received[l] + (IF l \in listeners THEN 1 ELSE 0)
                 /\ \A i \in DOMAIN last_set'.called :
                        last_set'.called[i].event =
                            StatusChangeEvent("connected", "destroyed")
                 /\ listeners' = {}
       /\ mgr_status = "destroyed"
              => mgr_status' = "destroyed" /\ received' = received]_vars

C19_Witness ==
    /\ Len(destroy_calls) = 2
    /\ \A d \in DOMAIN destroy_calls : destroy_calls[d].pc = "returned"
    /\ destroy_calls[1].emitted > 0 /\ destroy_calls[2].emitted = 0
    /\ last_set.was = "destroyed" /\ last_set.listeners # <<>>
    /\ \A n \in DOMAIN last_set.listeners : received[last_set.listeners[n]] = 0
    /\ \E l \in Listeners : received[l] = 1
    /\ listeners = {}

\* C20: when a destroy() call returns, the status is DESTROYED, close() has
\* been called on every resource that was tracked when the call began, and
\* the tracked-resource set and the active-scope set are empty; a destroy()
\* call made after another has returned calls no listener; and a destroy()
\* call that does not run concurrently with another calls close() on no
\* resource that has been closed before.
C20_DestroyIdempotent ==
    [][\A d \in DOMAIN destroy_calls' :
           ReturnsNow(d)
               => /\ mgr_status' = "destroyed"
                  /\ \A c \in destroy_calls'[d].listed : closes'[c] >= 1
                  /\ closeables' = {}
                  /\ active_scopes' = {}
                  /\ (\E e \in DOMAIN destroy_calls : destroy_calls[e].pc = "returned")
                         => destroy_calls'[d].emitted = 0 /\ received' = received
                  /\ ~destroy_calls'[d].overlapped
                         => \A c \in destroy_calls'[d].closed : closes'[c] = 1]_vars

C20_Witness ==
    /\ Len(destroy_calls) = 2
    /\ \A d \in DOMAIN destroy_calls :
           destroy_calls[d].pc = "returned" /\ ~destroy_calls[d].overlapped
    /\ Cardinality(destroy_calls[1].closed) = MaxCloseables
    /\ destroy_calls[1].failed
    /\ destroy_calls[1].detached # {}
    /\ destroy_calls[1].emitted > 0
    /\ destroy_calls[2].closed = {} /\ destroy_calls[2].emitted = 0
    /\ \A c \in DOMAIN closes : closes[c] = 1
    /\ mgr_status = "destroyed" /\ closeables = {} /\ active_scopes = {}

\* C21: a destroy() call during which a tracked resource's close() raised
\* does not raise; when it returns, close() has been called on every
\* resource that was tracked when it began and the status is DESTROYED.
C21_CloseFailureSwallowed ==
    \A d \in DOMAIN destroy_calls :
        destroy_calls[d].failed
            => /\ destroy_calls[d].pc \in {"closing", "returned"}
               /\ destroy_calls[d].pc = "returned"
                      => /\ destroy_calls[d].closed = destroy_calls[d].listed
                         /\ \A c \in destroy_calls[d].listed : closes[c] >= 1
                         /\ mgr_status = "destroyed"

C21_Witness ==
    \E d \in DOMAIN destroy_calls :
        /\ destroy_calls[d].failed /\ destroy_calls[d].pc = "returned"
        /\ ~destroy_calls[d].overlapped
        /\ Cardinality(destroy_calls[d].listed) = MaxCloseables
        /\ \A c \in destroy_calls[d].listed : closes[c] = 1
        /\ last_set.new_status = "destroyed" /\ last_set.was = "connected"

\* C38: over all the destroy() calls made on the backend, those that run
\* while another one is suspended in a close() included, close() is called
\* at most once on each tracked resource.
C38_CloseAtMostOncePerResource ==
    \A c \in DOMAIN closes : closes[c] <= 1

-----------------------------------------------------------------------------
(* Claims about scoped backends and their root backend (SpecScoped,         *)
(* SpecDestroy).                                                            *)

\* C22: while the root backend has not been destroyed, every scoped backend
\* made from it, by its own scope() or by the scope() of another scoped
\* backend, is in the root backend's active-scope set if and only if its
\* destroy() has not been called.
C22_ScopesRegisteredUntilDestroyed ==
    mgr_status # "destroyed"
        => \A s \in DOMAIN scope_objs :
               s \in active_scopes <=> ~scope_objs[s].destroyed

\* C23: a scoped backend's destroy() removes that scoped backend from the
\* root backend's active-scope set and changes nothing else: the root
\* backend's status, listeners, tracked resources, suspended destroy()
\* calls and stored data stay as they are and no listener is called.
C23_ScopeDestroyOnlyDeregisters ==
    [][\A s \in DOMAIN scope_objs :
           (~scope_objs[s].destroyed /\ scope_objs'[s].destroyed)
               => /\ active_scopes' = active_scopes \ {s}
                  /\ mgr_status' = mgr_status
                  /\ listeners' = listeners /\ registered' = registered
                  /\ received' = received
                  /\ last_set' = last_set /\ set_calls' = set_calls
                  /\ closeables' = closeables /\ closes' = closes
                  /\ destroy_calls' = destroy_calls
                  /\ store' = store]_vars

C23_Witness ==
    /\ mgr_status = "connected"
    /\ \E s \in DOMAIN scope_objs : scope_objs[s].destroyed
    /\ \E s \in active_scopes : ~scope_objs[s].destroyed
    /\ Cardinality(listeners) = MaxListeners
    /\ Cardinality(closeables) = MaxCloseables
    /\ \A l \in Listeners : received[l] = 0
    /\ \A c \in DOMAIN closes : closes[c] = 0

\* C24: a scoped backend's status is its root backend's status in every
\* state; the destroy() that takes the root backend to DESTROYED calls every
\* listener that was registered through a scoped backend and is still
\* registered, for the first time, with the event {from: connected, to:
\* destroyed}; and afterwards no listener is called again.
C24_ScopeDelegatesStatus ==
    /\ [](\A s \in DOMAIN scope_objs : ScopedStatus(s) = mgr_status)
    /\ [][/\ (mgr_status # "destroyed" /\ mgr_status' = "destroyed")
                 => \A s \in DOMAIN scope_objs :
                        \A cb \in scope_objs[s].subscribed \cap listeners :
                            /\ received[cb] = 0 /\ received'[cb] = 1
                            /\ \E i \in DOMAIN last_set'.called :
                                   /\ last_set'.called[i].listener = cb
                                   /\ last_set'.called[i].event =
                                          StatusChangeEvent("connected", "destroyed")
          /\ mgr_status = "destroyed" => received' = received]_vars

C24_Witness ==
    /\ mgr_status = "destroyed"
    /\ \E s \in DOMAIN scope_objs :
           /\ scope_objs[s].nested /\ ~scope_objs[s].destroyed
           /\ ScopedStatus(s) = "destroyed"
           /\ \E cb \in scope_objs[s].subscribed :
                  /\ received[cb] = 1
                  /\ \E i \in DOMAIN last_set.called : last_set.called[i].listener = cb

-----------------------------------------------------------------------------
(* SpecCmd: is_command_safe and LocalFilesystemBackend.exec applied to     *)
(* every command of the bounded set, under every configuration.            *)
(*                                                                         *)
(* A command is a sequence of words; the command string is its words       *)
(* joined by single spaces.  The word "\nE" is a line break followed by    *)
(* the heredoc tag E, and "<<E" opens a heredoc with that tag.  Each       *)
(* regular expression of safety.py is an operator on the word sequence     *)
(* that holds exactly when the expression finds a match in the joined      *)
(* string; expressions that no string over AllWords can match are left     *)
(* out of the disjunctions.                                                *)

MaxWords == 4

CommandWords ==
    {"ls", "gcloud", "rsync", "RSYNC", "curl", "|sh", "cd", "pushd",
     "$HOME", "${HOME}", "../", "<<E", "\nE"}

\* the commands that the specification of the classifier names
ExampleCommands ==
    { <<"gcloud", "storage", "rsync", "gs://b", ".">>, <<"rm", "-rf", "/">> }

Commands ==
    UNION { [1..n -> CommandWords] : n \in 0..MaxWords } \cup ExampleCommands

\* a word that begins with a line break: "." of a regular expression does
\* not match it
BreaksLine(w) == w \in {"\nE", "\ne"}

\* a word in which [/~*] finds a match
HasSlashTildeStar(w) == w \in {"../", "gs://b", "/"}

\* str.strip() of the joined string: the words have no blank at either end,
\* a line break at the start of the first word is removed
strip(command) ==
    IF command # <<>> /\ command[1] = "\nE"
        THEN <<"E">> \o Tail(command)
        ELSE command

\* str.lower(), word by word
lower(command) ==
    [i \in DOMAIN command |->
        CASE command[i] = "RSYNC"   -> "rsync"
          [] command[i] = "$HOME"   -> "$home"
          [] command[i] = "${HOME}" -> "${home}"
          [] command[i] = "<<E"     -> "<<e"
          [] command[i] = "\nE"     -> "\ne"
          [] command[i] = "E"       -> "e"
          [] OTHER                  -> command[i]]

\* any(pattern.search(normalized) for pattern in DEFAULT_ALLOWED_PATTERNS)
DEFAULT_ALLOWED_PATTERNS(normalized) ==
    \* ^gcloud\s+.*\brsync\b   (\s+ may take the line break of the second
    \* word, .* takes none)
    \/ /\ normalized # <<>> /\ normalized[1] = "gcloud"
       /\ \E j \in 2..Len(normalized) :
              /\ normalized[j] = "rsync"
              /\ \A k \in 3..(j - 1) : ~BreaksLine(normalized[k])
    \* ^gcloud\s+storage\s+rsync\b
    \/ /\ Len(normalized) >= 3
       /\ normalized[1] = "gcloud" /\ normalized[2] = "storage"
       /\ normalized[3] = "rsync"

is_allowed(command) ==
    LET normalized == strip(command)
    IN  DEFAULT_ALLOWED_PATTERNS(normalized)

\* (?:curl|wget)\b.*\|\s*(?:sh|bash|zsh|fish)\b
PipesDownloadToShell(s) ==
    \E i \in DOMAIN s : \E j \in (i + 1)..Len(s) :
        /\ s[i] = "curl" /\ s[j] = "|sh"
        /\ \A k \in (i + 1)..j : ~BreaksLine(s[k])

\* any(pattern.search(normalized) for pattern in DANGEROUS_PATTERNS)
DANGEROUS_PATTERNS(normalized) ==
    \* \brm\b.*-rf?\b.*[/~*]
    \/ \E i \in DOMAIN normalized : \E j \in (i + 1)..Len(normalized) :
       \E k \in (j + 1)..Len(normalized) :
           /\ normalized[i] = "rm" /\ normalized[j] = "-rf"
           /\ HasSlashTildeStar(normalized[k])
           /\ \A m \in (i + 1)..k : ~BreaksLine(normalized[m])
    \* \brm\b.*[/~*].*-rf?\b
    \/ \E i \in DOMAIN normalized : \E k \in (i + 1)..Len(normalized) :
       \E j \in (k + 1)..Len(normalized) :
           /\ normalized[i] = "rm" /\ HasSlashTildeStar(normalized[k])
           /\ normalized[j] = "-rf"
           /\ \A m \in (i + 1)..j : ~BreaksLine(normalized[m])
    \* curl\b.*\|\s*(sh|bash|zsh|fish)\b
    \/ PipesDownloadToShell(normalized)
    \* \|\s*(sh|bash|zsh|fish)\s*$
    \/ normalized # <<>> /\ normalized[Len(normalized)] = "|sh"
    \* \brsync\b
    \/ \E i \in DOMAIN normalized : normalized[i] = "rsync"

is_dangerous(command) ==
    LET normalized == lower(strip(command))
    IN  IF is_allowed(command) THEN FALSE ELSE DANGEROUS_PATTERNS(normalized)

\* heredoc_regex.sub: from the leftmost "<<E" that has a line "E" after it
\* up to the first such line, then on with the rest
RECURSIVE strip_heredoc_content(_)
strip_heredoc_content(command) ==
    IF command = <<>> THEN <<>>
    ELSE IF /\ command[1] = "<<E"
            /\ \E j \in 2..Len(command) : command[j] = "\nE"
         THEN LET j == CHOOSE j \in 2..Len(command) :
                           /\ command[j] = "\nE"
                           /\ \A k \in 2..(j - 1) : command[k] # "\nE"
              IN  <<"<<HEREDOC_PLACEHOLDER">>
                      \o strip_heredoc_content(SubSeq(command, j + 1, Len(command)))
         ELSE <<command[1]>> \o strip_heredoc_content(Tail(command))

\* the patterns of ESCAPE_PATTERNS, by the reason is_command_safe has for them
DirectoryChange(s) == \E i \in DOMAIN s : s[i] = "cd"         \* \bcd\b
HomeReference(s)   == \E i \in DOMAIN s : s[i] = "$HOME"      \* ~/ , \$HOME
ParentTraversal(s) == \E i \in DOMAIN s : s[i] = "../"        \* \.\.[/\\]
OtherEscape(s)     == \E i \in DOMAIN s : s[i] \in {"pushd", "${HOME}"}
                                               \* \bpushd\b , \$\{HOME\}

\* any(pattern.search(s) for pattern in ESCAPE_PATTERNS)
ESCAPE_PATTERNS(s) ==
    DirectoryChange(s) \/ HomeReference(s) \/ ParentTraversal(s) \/ OtherEscape(s)

is_escaping_workspace(command) ==
    LET command_without_heredocs == strip_heredoc_content(command)
    IN  ESCAPE_PATTERNS(command_without_heredocs)

get_base_command(command) ==
    LET parts == strip(command)
    IN  IF parts = <<>> THEN "" ELSE parts[1]

\* a reason is the sequence of the pieces of its text
PipeToShellReason  == <<"Piping downloads to shell is dangerous. Download to a file first (e.g., 'curl -O <url>'), inspect it, then execute if safe.">>
DangerousReason(base_cmd) == <<"dangerous command '", base_cmd, "' is not allowed">>
DirectoryReason    == <<"Directory change commands are not allowed">>
HomeReason         == <<"Home directory references are not allowed">>
ParentReason       == <<"Parent directory traversal is not allowed">>
EscapeReason       == <<"Command attempts to escape workspace">>

SafetyResult(safe, reason) == [safe |-> safe, reason |-> reason]

is_command_safe(command) ==
    IF is_dangerous(command)
    THEN LET base_cmd == get_base_command(command)
         IN  IF PipesDownloadToShell(lower(command))
                 THEN SafetyResult(FALSE, PipeToShellReason)
                 ELSE SafetyResult(FALSE, DangerousReason(base_cmd))
    ELSE IF is_escaping_workspace(command)
    THEN IF DirectoryChange(command)
             THEN SafetyResult(FALSE, DirectoryReason)
         ELSE IF HomeReference(command)
             THEN SafetyResult(FALSE, HomeReason)
         ELSE IF ParentTraversal(command)
             THEN SafetyResult(FALSE, ParentReason)
         ELSE SafetyResult(FALSE, EscapeReason)
    ELSE SafetyResult(TRUE, <<>>)

\* the outcome of one exec call: the error raised or "returned", the error's
\* message and operand, the commands the callback was called with, the
\* number of processes spawned and the working directory given to the process
ExecOutcome(command, outcome, message, operand, callback_calls, spawned, cwd) ==
    [kind |-> "exec", command |-> command, outcome |-> outcome,
     message |-> message, operand |-> operand,
     callback_calls |-> callback_calls, spawned |-> spawned, cwd |-> cwd]

\* _run_process: the process is spawned and exits with exit_status
run_process(command, cwd, exit_status) ==
    IF exit_status = 0
        THEN ExecOutcome(command, "returned", <<>>, <<>>, <<>>, 1, cwd)
        ELSE ExecOutcome(command, "EXEC_FAILED",
                         <<"Command execution failed with exit code">>,
                         <<command>>, <<>>, 1, cwd)

\* options.cwd, or the root directory when it is None or empty
requested_cwd == IF exec_cwd = <<>> THEN exec_root ELSE exec_cwd

exec_direct(command, exit_status) ==
    run_process(command, requested_cwd, exit_status)

\* the process runs under bwrap with the root bound to /tmp/agentbe-workspace
\* and --chdir to the requested directory's place below it
exec_with_bwrap(command, exit_status) ==
    IF validate_absolute_within_root(requested_cwd, exec_root).kind # "ok"
        THEN ExecOutcome(command, "PathEscapeError",
                         <<"Path escapes scope boundary: ">>, <<requested_cwd>>,
                         <<>>, 0, <<>>)
        ELSE run_process(command, requested_cwd, exit_status)

\* exec that hands the command to the shell without any check
exec_Unchecked(command, exit_status) ==
    run_process(command, requested_cwd, exit_status)

\* LocalFilesystemBackend.exec(command, options); exit_status is the exit
\* status of the process if one is spawned
exec(command, exit_status) ==
    IF strip(command) = <<>>
        THEN ExecOutcome(command, "EMPTY_COMMAND", <<"Command cannot be empty">>,
                         <<>>, <<>>, 0, <<>>)
    ELSE IF prevent_dangerous /\ is_dangerous(command)
        THEN IF on_dangerous_operation # "none"
                 THEN ExecOutcome(command, "returned", <<>>, <<>>, <<command>>, 0, <<>>)
                 ELSE ExecOutcome(command, "DANGEROUS_OPERATION",
                                  <<"Dangerous operation blocked: ">>,
                                  <<command>>, <<>>, 0, <<>>)
    ELSE IF prevent_dangerous /\ ~is_command_safe(command).safe
        THEN ExecOutcome(command, "UNSAFE_COMMAND",
                         IF is_command_safe(command).reason # <<>>
                             THEN is_command_safe(command).reason
                             ELSE <<"Command failed safety check">>,
                         <<command>>, <<>>, 0, <<>>)
    ELSE IF actual_isolation = "bwrap"
        THEN exec_with_bwrap(command, exit_status)
        ELSE exec_direct(command, exit_status)

InitCmd ==
    /\ prevent_dangerous \in BOOLEAN
    /\ on_dangerous_operation \in {"none", "callback"}
    /\ command_arg \in Commands
    /\ exec_root = <<SEP, "w">> /\ exec_cwd = <<>> /\ actual_isolation = "none"
    /\ max_output_length = 0 /\ stdout = <<>> /\ exec_output = NoResult
    /\ exec_call = NoResult
    /\ PathIdle /\ ScopeIdle /\ StoreIdle /\ PoolIdle /\ LifeIdle /\ EnsureIdle

IsCommandSafe ==
    /\ exec_call = NoResult
    /\ exec_call' = [kind |-> "is_command_safe", command |-> command_arg,
                     outcome |-> is_command_safe(command_arg)]
    /\ UNCHANGED <<prevent_dangerous, on_dangerous_operation, command_arg,
                   exec_root, exec_cwd, actual_isolation,
                   max_output_length, stdout, exec_output,
                   pathVars, scopeVars, storeVars, poolVars, lifeVars, ensureVars>>

Exec ==
    /\ exec_call = NoResult
    /\ \E exit_status \in {0, 1} : exec_call' = exec(command_arg, exit_status)
    /\ UNCHANGED <<prevent_dangerous, on_dangerous_operation, command_arg,
                   exec_root, exec_cwd, actual_isolation,
                   max_output_length, stdout, exec_output,
                   pathVars, scopeVars, storeVars, poolVars, lifeVars, ensureVars>>

NextCmd == IsCommandSafe \/ Exec

SpecCmd == InitCmd /\ [][NextCmd]_vars

\* C28: with prevention enabled, an exec of an empty command raises
\* EMPTY_COMMAND; of a dangerous command raises DANGEROUS_OPERATION when no
\* callback is registered and otherwise calls the callback exactly once, with
\* the command, and returns; of a workspace-escaping command that is not
\* dangerous raises UNSAFE_COMMAND; and none of these calls spawns a process
\* or, but for the dangerous case, calls the callback.
C28_ExecRejectsBeforeSpawn ==
    (exec_call.kind = "exec" /\ prevent_dangerous) =>
        LET command == exec_call.command
        IN  /\ strip(command) = <<>> =>
                /\ exec_call.outcome = "EMPTY_COMMAND"
                /\ exec_call.spawned = 0 /\ exec_call.callback_calls = <<>>
            /\ (strip(command) # <<>> /\ is_dangerous(command)) =>
                /\ exec_call.spawned = 0
                /\ IF on_dangerous_operation = "none"
                       THEN /\ exec_call.outcome = "DANGEROUS_OPERATION"
                            /\ exec_call.callback_calls = <<>>
                       ELSE /\ exec_call.outcome = "returned"
                            /\ exec_call.callback_calls = <<command>>
            /\ (strip(command) # <<>> /\ ~is_dangerous(command)
                    /\ is_escaping_workspace(command)) =>
                /\ exec_call.outcome = "UNSAFE_COMMAND"
                /\ exec_call.spawned = 0 /\ exec_call.callback_calls = <<>>

C28_Witness ==
    /\ exec_call.kind = "exec" /\ prevent_dangerous
    /\ on_dangerous_operation = "callback"
    /\ exec_call.command = <<"curl", "ls", "|sh">>
    /\ is_dangerous(exec_call.command)
    /\ exec_call.outcome = "returned"
    /\ exec_call.callback_calls = <<exec_call.command>>
    /\ exec_call.spawned = 0

\* the position of the leftmost heredoc opener whose heredoc ends with the
\* command's last line, a line that contains only the tag; 0 if there is none
Opener(command) ==
    IF /\ command # <<>> /\ command[Len(command)] = "\nE"
       /\ \E i \in 1..(Len(command) - 1) : command[i] = "<<E"
    THEN CHOOSE i \in 1..(Len(command) - 1) :
             /\ command[i] = "<<E"
             /\ \A k \in 1..(i - 1) : command[k] # "<<E"
    ELSE 0

\* the text before the heredoc body: the words up to the end of the opener's
\* line.  The body runs from the first line break after the opener up to the
\* last line.
BeforeBody(command) ==
    LET i == Opener(command)
        first_break == CHOOSE j \in (i + 1)..Len(command) :
                           /\ command[j] = "\nE"
                           /\ \A k \in (i + 1)..(j - 1) : command[k] # "\nE"
    IN  SubSeq(command, 1, first_break - 1)

EscapeReasons == {DirectoryReason, HomeReason, ParentReason, EscapeReason}

\* C33: a command with a heredoc whose text outside the heredoc body matches
\* no escape pattern is not classified as escaping the workspace, whatever
\* the body holds, body lines that begin with the tag included.
C33_HeredocBodyNeverEscapes ==
    (/\ exec_call.kind = "is_command_safe"
     /\ Opener(exec_call.command) # 0
     /\ ~ESCAPE_PATTERNS(BeforeBody(exec_call.command)))
        => /\ exec_call.outcome.reason \notin EscapeReasons
           /\ ~is_escaping_workspace(exec_call.command)

(* SpecOutput: what _run_process makes of the standard output of a process *)
(* that ended with status 0, text encoding.  A character of the output is  *)
(* 0 for white space and i for the i-th other character, so that the text  *)
(* kept can be told from any other part of the output.                     *)

MaxOutput == 52       \* the process writes at most this many visible characters
MaxLimit == 52        \* max_output_length is at most this

\* lead white space, n visible characters, trail white space
OutputText(lead, n, trail) ==
    [i \in 1..lead |-> 0] \o [i \in 1..n |-> i] \o [i \in 1..trail |-> 0]

\* str.strip()
str_strip(text) ==
    LET visible == { i \in DOMAIN text : text[i] # 0 }
    IN  IF visible = {} THEN <<>>
        ELSE SubSeq(text, CHOOSE i \in visible : \A j \in visible : i <= j,
                          CHOOSE i \in visible : \A j \in visible : i >= j)

\* text[:n]: a negative n counts from the end
SliceTo(text, n) ==
    IF n >= 0 THEN SubSeq(text, 1, IF n < Len(text) THEN n ELSE Len(text))
    ELSE SubSeq(text, 1, IF Len(text) + n > 0 THEN Len(text) + n ELSE 0)

\* the text returned: output, or its slice followed by the marker with the
\* two numbers
truncate(output, limit) ==
    IF limit # 0 /\ Len(output) > limit
    THEN [kind |-> "output", text |-> SliceTo(output, limit - 50), truncated |-> TRUE,
          full |-> Len(output), showing |-> limit - 50]
    ELSE [kind |-> "output", text |-> output, truncated |-> FALSE,
          full |-> 0, showing |-> 0]

InitOutput ==
    /\ prevent_dangerous = TRUE /\ on_dangerous_operation = "none"
    /\ command_arg = <<"ls">>
    /\ exec_root = <<SEP, "w">> /\ exec_cwd = <<>> /\ actual_isolation = "none"
    /\ exec_call = NoResult
    /\ max_output_length \in 0..MaxLimit
    /\ stdout \in { OutputText(lead, n, trail) :
                        lead \in 0..1, n \in 0..MaxOutput, trail \in 0..1 }
    /\ exec_output = NoResult
    /\ PathIdle /\ ScopeIdle /\ StoreIdle /\ PoolIdle /\ LifeIdle /\ EnsureIdle

\* proc.returncode == 0: stdout.decode("utf-8").strip(), truncated
RunProcess ==
    /\ exec_output = NoResult
    /\ exec_output' = truncate(str_strip(stdout), max_output_length)
    /\ UNCHANGED <<prevent_dangerous, on_dangerous_operation, command_arg,
                   exec_root, exec_cwd, actual_isolation, exec_call,
                   max_output_length, stdout,
                   pathVars, scopeVars, storeVars, poolVars, lifeVars, ensureVars>>

NextOutput == RunProcess

SpecOutput == InitOutput /\ [][NextOutput]_vars

\* C37: with max_output_length set to a positive value and the stripped
\* output longer than it, the text returned keeps at most max_output_length
\* characters of the output, which are its first ones, and is marked with
\* the length of the whole output; otherwise the stripped output is returned
\* as it is.
C37_TruncationKeepsAtMostLimit ==
    exec_output.kind = "output" =>
        LET output == str_strip(stdout)
        IN  IF max_output_length > 0 /\ Len(output) > max_output_length
            THEN /\ exec_output.truncated
                 /\ Len(exec_output.text) <= max_output_length
                 /\ exec_output.text = SubSeq(output, 1, Len(exec_output.text))
                 /\ exec_output.full = Len(output)
            ELSE ~exec_output.truncated /\ exec_output.text = output

(* SpecCwd: exec of a command that passes the safety checks, for every     *)
(* root directory, working directory and isolation of the bounded sets.    *)

InitCwd ==
    /\ prevent_dangerous = TRUE /\ on_dangerous_operation = "none"
    /\ command_arg = <<"ls">>
    /\ exec_root \in {abspath(b) : b \in Boundaries} \ {<<SEP>>}
    /\ exec_cwd \in {p \in Paths : p = <<>> \/ isabs(p)}
    /\ actual_isolation \in {"bwrap", "none"}
    /\ exec_call = NoResult
    /\ max_output_length = 0 /\ stdout = <<>> /\ exec_output = NoResult
    /\ PathIdle /\ ScopeIdle /\ StoreIdle /\ PoolIdle /\ LifeIdle /\ EnsureIdle

NextCwd == Exec

SpecCwd == InitCwd /\ [][NextCwd]_vars

\* C32: whenever exec spawns a process, the working directory it gives the
\* process lies inside the backend's root directory, and an exec asked to
\* run in a working directory outside the root raises PathEscapeError and
\* spawns nothing.
C32_SpawnCwdInsideRoot ==
    exec_call.kind = "exec" =>
        /\ exec_call.spawned = 1
               => Within(_resolve(exec_call.cwd), _resolve(exec_root))
        /\ ~Within(_resolve(requested_cwd), _resolve(exec_root))
               => exec_call.outcome = "PathEscapeError" /\ exec_call.spawned = 0

\* the reasons of the kinds of escape pattern that find a match in s
MatchedKindReasons(s) ==
    (IF DirectoryChange(s) THEN {DirectoryReason} ELSE {})
        \cup (IF HomeReference(s) THEN {HomeReason} ELSE {})
        \cup (IF ParentTraversal(s) THEN {ParentReason} ELSE {})
        \cup (IF OtherEscape(s) THEN {EscapeReason} ELSE {})

NonEmptyReason(reason) == \E i \in DOMAIN reason : reason[i] # ""

\* C29: is_command_safe decides in a fixed order: a command that matches
\* the dangerous set and no allow-list pattern is unsafe, with the
\* download-then-inspect reason when it pipes a download to a shell and the
\* generic dangerous reason otherwise; else a command whose text outside
\* heredoc bodies matches the escape set is unsafe, with the reason of a kind
\* of escape pattern that matched there; else the command is safe; and every
\* unsafe verdict has a non-empty reason.
C29_ClassifierOrderAndReasons ==
    exec_call.kind = "is_command_safe" =>
        LET command  == exec_call.command
            verdict  == exec_call.outcome
            stripped == strip_heredoc_content(command)
        IN  /\ IF /\ DANGEROUS_PATTERNS(lower(strip(command)))
                  /\ ~DEFAULT_ALLOWED_PATTERNS(strip(command))
               THEN /\ ~verdict.safe
                    /\ verdict.reason =
                           IF PipesDownloadToShell(lower(command))
                               THEN PipeToShellReason
                               ELSE DangerousReason(get_base_command(command))
               ELSE IF ESCAPE_PATTERNS(stripped)
               THEN /\ ~verdict.safe
                    /\ verdict.reason \in MatchedKindReasons(stripped)
               ELSE verdict.safe
            /\ ~verdict.safe => NonEmptyReason(verdict.reason)

\* the allow-list example of C29: the command matches the generic rsync
\* pattern and is classified safe
C29_AllowListExample ==
    /\ exec_call.kind = "is_command_safe"
    /\ exec_call.command = <<"gcloud", "storage", "rsync", "gs://b", ".">>
    /\ DANGEROUS_PATTERNS(lower(strip(exec_call.command)))
    /\ exec_call.outcome = SafetyResult(TRUE, <<>>)

-----------------------------------------------------------------------------
(* SpecEnsure: the operations of one ScopedFilesystemBackend called by     *)
(* concurrent tasks, and the _ensure_root they call first.  A task is      *)
(* suspended while it waits for the lock and at each await of a parent     *)
(* operation; everything between two suspension points is one step.        *)

MaxCallers == 3
MaxEnsureCalls == 2

Callers == 1..MaxCallers

\* the operations of the scoped backend that change the parent's storage,
\* and readdir
ScopedOps == {"exec", "write", "rename", "rm", "readdir", "mkdir", "touch"}

\* the operations that await self._ensure_root() first
EnsuringOps == {"exec", "write", "rename", "readdir", "mkdir", "touch"}

\* asyncio.Lock.acquire takes the lock without suspending when it is not
\* locked and no task waits for it
lock_is_free_Always == TRUE

lock_is_free == ~lock_locked /\ lock_waiters = <<>>

\* the operation reaches the parent backend: await self._parent.<op>(...);
\* ensured and exists are the flag and the presence of the scope root then
ParentCall(c, op, ensured, exists) ==
    /\ parent_calls' = parent_calls \cup
           {[op |-> op, ensured |-> ensured, root_exists |-> exists]}
    /\ ensure_result' = [ensure_result EXCEPT ![c] = "reached parent"]
    /\ ensure_pc' = [ensure_pc EXCEPT ![c] = "idle"]
    /\ ensure_op' = [ensure_op EXCEPT ![c] = "none"]

\* an exception that leaves _ensure_root with the flag set all the same
EnsureRaises_SetsFlag(c) ==
    /\ lock_locked' = FALSE
    /\ root_ensured' = TRUE
    /\ ensure_result' = [ensure_result EXCEPT ![c] = "raised"]
    /\ ensure_pc' = [ensure_pc EXCEPT ![c] = "idle"]
    /\ ensure_op' = [ensure_op EXCEPT ![c] = "none"]
    /\ UNCHANGED <<parent_calls, succeeded, scope_root_exists>>

\* the parent's exists or mkdir raises: the exception leaves the async with,
\* which releases the lock, then _ensure_root and the operation that called it
EnsureRaises(c) ==
    /\ lock_locked' = FALSE
    /\ ensure_result' = [ensure_result EXCEPT ![c] = "raised"]
    /\ ensure_pc' = [ensure_pc EXCEPT ![c] = "idle"]
    /\ ensure_op' = [ensure_op EXCEPT ![c] = "none"]
    /\ UNCHANGED <<parent_calls, root_ensured, succeeded, scope_root_exists>>

\* inside the lock: the second test of the flag, then the parent's exists
EnsureLocked(c, op) ==
    IF root_ensured
        THEN /\ lock_locked' = FALSE                  \* leaves the async with
             /\ ParentCall(c, op, root_ensured, scope_root_exists)
             /\ UNCHANGED <<issued>>
        ELSE /\ lock_locked' = TRUE
             /\ ensure_pc' = [ensure_pc EXCEPT ![c] = "exists"]
             /\ ensure_op' = [ensure_op EXCEPT ![c] = op]
             /\ issued' = issued + 1
             /\ UNCHANGED <<parent_calls, ensure_result>>

\* _ensure_root called for the operation op
EnsureRoot(c, op) ==
    IF root_ensured
        THEN /\ ParentCall(c, op, root_ensured, scope_root_exists)
             /\ UNCHANGED <<lock_locked, lock_waiters, issued>>
    ELSE IF lock_is_free
        THEN EnsureLocked(c, op) /\ UNCHANGED lock_waiters
    ELSE /\ lock_waiters' = Append(lock_waiters, c)
         /\ ensure_pc' = [ensure_pc EXCEPT ![c] = "waiting"]
         /\ ensure_op' = [ensure_op EXCEPT ![c] = op]
         /\ UNCHANGED <<lock_locked, issued, parent_calls, ensure_result>>

\* a task calls an operation of the scoped backend
ScopedCall(c, op) ==
    /\ ensure_pc[c] = "idle" /\ ensure_calls[c] < MaxEnsureCalls
    /\ ensure_calls' = [ensure_calls EXCEPT ![c] = @ + 1]
    /\ IF op \in EnsuringOps
           THEN EnsureRoot(c, op)
           ELSE /\ ParentCall(c, op, root_ensured, scope_root_exists)
                /\ UNCHANGED <<lock_locked, lock_waiters, issued>>
    /\ UNCHANGED <<root_ensured, scope_root_exists, succeeded,
                   pathVars, scopeVars, storeVars, poolVars, lifeVars, cmdVars>>

\* the lock was released and the first waiting task, woken by the release,
\* runs again
LockAcquired(c) ==
    /\ ensure_pc[c] = "waiting"
    /\ ~lock_locked /\ lock_waiters # <<>> /\ Head(lock_waiters) = c
    /\ lock_waiters' = Tail(lock_waiters)
    /\ EnsureLocked(c, ensure_op[c])
    /\ UNCHANGED <<root_ensured, scope_root_exists, succeeded, ensure_calls,
                   pathVars, scopeVars, storeVars, poolVars, lifeVars, cmdVars>>

\* await self._parent.exists(self._scope_path) returns or raises
ExistsReturns(c, raised) ==
    /\ ensure_pc[c] = "exists"
    /\ IF raised THEN EnsureRaises(c) /\ UNCHANGED issued
       ELSE IF scope_root_exists
           THEN /\ root_ensured' = TRUE /\ succeeded' = TRUE
                /\ lock_locked' = FALSE
                /\ ParentCall(c, ensure_op[c], TRUE, scope_root_exists)
                /\ UNCHANGED <<issued, scope_root_exists>>
           ELSE /\ ensure_pc' = [ensure_pc EXCEPT ![c] = "mkdir"]
                /\ issued' = issued + 1
                /\ UNCHANGED <<root_ensured, succeeded, lock_locked, ensure_op,
                               scope_root_exists, parent_calls, ensure_result>>
    /\ UNCHANGED <<lock_waiters, ensure_calls,
                   pathVars, scopeVars, storeVars, poolVars, lifeVars, cmdVars>>

\* await self._parent.mkdir(self._scope_path, recursive=True) returns, or
\* raises WRITE_FAILED
MkdirReturns(c, raised) ==
    /\ ensure_pc[c] = "mkdir"
    /\ IF raised
           THEN EnsureRaises(c)
           ELSE /\ root_ensured' = TRUE /\ succeeded' = TRUE
                /\ scope_root_exists' = TRUE
                /\ lock_locked' = FALSE
                /\ ParentCall(c, ensure_op[c], TRUE, TRUE)
    /\ UNCHANGED <<issued, lock_waiters, ensure_calls,
                   pathVars, scopeVars, storeVars, poolVars, lifeVars, cmdVars>>

InitEnsure ==
    /\ root_ensured = FALSE
    /\ lock_locked = FALSE /\ lock_waiters = <<>>
    /\ ensure_pc = [c \in Callers |-> "idle"]
    /\ ensure_op = [c \in Callers |-> "none"]
    /\ ensure_result = [c \in Callers |-> "none"]
    /\ ensure_calls = [c \in Callers |-> 0]
    /\ parent_calls = {}
    /\ scope_root_exists \in BOOLEAN
    /\ issued = 0 /\ succeeded = FALSE
    /\ PathIdle /\ ScopeIdle /\ StoreIdle /\ PoolIdle /\ LifeIdle /\ CmdIdle

NextEnsure ==
    \/ \E c \in Callers : \E op \in ScopedOps : ScopedCall(c, op)
    \/ \E c \in Callers : LockAcquired(c)
    \/ \E c \in Callers : \E raised \in BOOLEAN : ExistsReturns(c, raised)
    \/ \E c \in Callers : \E raised \in BOOLEAN : MkdirReturns(c, raised)

SpecEnsure == InitEnsure /\ [][NextEnsure]_vars

\* the tasks that are inside an attempt: a parent exists or mkdir is pending
Attempting == {c \in Callers : ensure_pc[c] \in {"exists", "mkdir"}}

\* C30: at most one task at a time is inside an attempt to ensure the scope
\* root (the parent's exists, then mkdir); while one is, every other task
\* that has called and not returned waits in the lock's queue; and once an
\* attempt has succeeded no exists or mkdir is issued for the scope root
\* again.
C30_OneEnsureAttemptAtATime ==
    /\ [](/\ Cardinality(Attempting) <= 1
          /\ \A c \in Callers :
                 ensure_pc[c] = "waiting" <=>
                     \E i \in DOMAIN lock_waiters : lock_waiters[i] = c
          /\ Attempting # {} => lock_locked)
    /\ [][succeeded => issued' = issued]_vars

C30_Witness ==
    /\ succeeded /\ root_ensured /\ ~lock_locked
    /\ Len(lock_waiters) = MaxCallers - 1
    /\ issued = 2
    /\ \E c \in Callers : ensure_pc[c] = "idle" /\ ensure_calls[c] = 1

\* C31: every mutating operation called through the scoped backend reaches
\* the parent backend only after the scope root has been ensured: the flag is
\* set and the scope root exists.
C31_RootEnsuredBeforeMutation ==
    \A call \in parent_calls :
        call.op \in {"exec", "write", "rename", "rm", "mkdir", "touch"}
            => call.ensured /\ call.root_exists

\* the step in which the exists or mkdir awaited by task c raises
AttemptFails(c) ==
    /\ ensure_pc[c] \in {"exists", "mkdir"}
    /\ ensure_pc'[c] = "idle" /\ ensure_result'[c] = "raised"

\* the step in which task c calls an operation of the scoped backend
Calls(c) == ensure_calls'[c] = ensure_calls[c] + 1

\* C40: when the parent's exists or mkdir raises during an attempt to ensure
\* the scope root, the lock is released, the flag stays unset and the
\* operation does not reach the parent (its caller gets the exception); the
\* lock is held only while a task is inside an attempt, and the first task
\* of the queue of a free lock is one that waits for it; a call that needs
\* the root and finds the flag unset starts an attempt or queues for the
\* lock, and no operation that ensures the root reaches the parent with the
\* flag unset or the root missing.
C40_FailedEnsureIsRetried ==
    /\ [][\A c \in Callers :
             AttemptFails(c) => /\ ~lock_locked' /\ ~root_ensured'
                                /\ parent_calls' = parent_calls]_vars
    /\ [](/\ lock_locked <=> Attempting # {}
          /\ ~lock_locked /\ lock_waiters # <<>>
                 => ensure_pc[Head(lock_waiters)] = "waiting")
    /\ [][\A c \in Callers :
             Calls(c) /\ ~root_ensured
                 => \/ ensure_pc'[c] = "exists" /\ lock_locked' /\ issued' = issued + 1
                    \/ ensure_pc'[c] = "waiting" /\ ~lock_is_free
                    \/ /\ ensure_pc'[c] = "idle"
                       /\ \A call \in parent_calls' \ parent_calls :
                              call.op \notin EnsuringOps]_vars
    /\ [](\A call \in parent_calls :
              call.op \in EnsuringOps => call.ensured /\ call.root_exists)

\* an attempt failed, and a later call made another attempt, which succeeded,
\* and reached the parent
C40_Witness ==
    /\ \E c1, c2 \in Callers :
           /\ c1 # c2
           /\ ensure_result[c1] = "raised" /\ ensure_calls[c1] = 1
           /\ ensure_result[c2] = "reached parent" /\ ensure_calls[c2] = 1
    /\ succeeded /\ root_ensured /\ ~lock_locked /\ scope_root_exists
    /\ issued = 3
    /\ parent_calls = {[op |-> "write", ensured |-> TRUE, root_exists |-> TRUE]}

====
